---- MODULE Spec2Model ----
(***************************************************************************)
(* Layout and arrow routing of the Terraform architecture diagram          *)
(* generators: tf2svg.py (RoutingGrid, parse_state, layout, generate_svg), *)
(* graph2svg.py (layout) and files2svg.py (layout_resources).              *)
(*                                                                         *)
(* Coordinates are pixels, as in the source.  Strings that the code only   *)
(* compares for order (resource names, module names) are naturals with     *)
(* the same order; 0 stands for None.                                      *)
(***************************************************************************)
EXTENDS Integers, Sequences, FiniteSets, TLC

VARIABLES
    \* ---- a RoutingGrid object driven through its methods (tf2svg.py)
    cols, rows, blocked, used_h, used_v,
    gpc,        \* "idle", or "find_h_channel" while the channel search loops
    offset,     \* loop variable of find_h_channel
    examined,   \* candidate rows find_h_channel has looked at in this call
    call,       \* the last method call and what it returned
    \* ---- one call of tf2svg.generate_svg(data, title)
    data_in,    \* the argument data
    title,      \* whether a title is given
    spc,        \* "idle", "parse", "layout", "grid", "route", "done"
    data,       \* what parse_state returned
    L,          \* what layout returned
    di,         \* index of the dependency the arrow loop is at
    paths,      \* the waypoint lists drawn so far, with their dependency
    run,        \* how many times generate_svg has been started on data_in
    prev,       \* positions, bounds, canvas and waypoints of the previous run
    \* ---- one call of a layout function
    lkind,      \* "tf2svg", "graph2svg" or "files2svg"; "none" outside a call
    lin,        \* the arguments
    lout,       \* the result, <<>> until the function has returned
    \* ---- one run of graph2svg.main on a DOT text
    dot,        \* the edge lines of the text, each <<source string, target string>>
    dpc,        \* "idle", "parse", "filter", "layout", "done"
    g_nodes,    \* the nodes parse_dot returned, in dict order
    g_edges,    \* the edges parse_dot returned
    intra_edges,\* first list filter_edges returned
    cross_edges,\* second list filter_edges returned
    g_L,        \* what layout returned
    \* ---- sanitizer.sanitize on a Terraform state and on a twin of it
    tf_state,   \* the "root_module" of a terraform show -json output
    tf_twin,    \* the same state with other values in the attributes dropped
    clean,      \* what sanitize returned for tf_state, <<>> before the call
    clean_twin, \* what sanitize returned for tf_twin, <<>> before the call
    \* ---- one call of tf2diagram.infer_connections(resources)
    tfd_resources, \* the argument, in dict order: [id, layer] of each resource
    connections,   \* the list of (src, tgt) built so far
    con_seen,      \* the set seen
    cpc            \* "idle", "layers", "patterns", "done"

gridVars == <<cols, rows, blocked, used_h, used_v, gpc, offset, examined, call>>

svgVars == <<data_in, title, spc, data, L, di, paths, run, prev>>

layVars == <<lkind, lin, lout>>

dotVars == <<dot, dpc, g_nodes, g_edges, intra_edges, cross_edges, g_L>>

sanVars == <<tf_state, tf_twin, clean, clean_twin>>

conVars == <<tfd_resources, connections, con_seen, cpc>>

vars == <<cols, rows, blocked, used_h, used_v, gpc, offset, examined, call,
          data_in, title, spc, data, L, di, paths, run, prev, lkind, lin, lout,
          dot, dpc, g_nodes, g_edges, intra_edges, cross_edges, g_L,
          tf_state, tf_twin, clean, clean_twin,
          tfd_resources, connections, con_seen, cpc>>

----------------------------------------------------------------------------
(* Bounds of the model *)

MaxLen == 4         \* longest waypoint list handed to _simplify
MaxCoord == 1       \* waypoints handed to _simplify have y in 0..MaxCoord, x one wider
MaxRes == 3         \* most resources in the data handed to generate_svg
MaxWide == 7        \* most resources of one type handed to layout_resources
MaxState == 2       \* most resources in a state handed to sanitize
MaxDiagram == 3     \* most resources handed to infer_connections
MaxLines == 2       \* most edge lines in the DOT text handed to graph2svg

----------------------------------------------------------------------------
(* tf2svg.py: design system *)

GRID == 8
NODE_W == 14 * GRID
NODE_H == 13 * GRID
H_GAP == 5 * GRID
V_GAP == 10 * GRID
MODULE_PAD == 3 * GRID
MODULE_HDR == 4 * GRID
CANVAS_PAD == 8 * GRID
USER_W == 10 * GRID
ROUTE_MARGIN == 2 * GRID
cell_size == GRID * 2

----------------------------------------------------------------------------
(* Helpers for Python built-ins *)

Min2(a, b) == IF a <= b THEN a ELSE b
Max2(a, b) == IF a >= b THEN a ELSE b
Abs(a) == IF a >= 0 THEN a ELSE -a

\* range(a, b)
Range(a, b) == a .. (b - 1)

\* sorted(seq, key=key) for keys that are pairs of numbers: stable
KeyLess(k1, k2) == k1[1] < k2[1] \/ (k1[1] = k2[1] /\ k1[2] < k2[2])

SortedBy(seq, key(_)) ==
    LET n == Len(seq)
        rank(i) == Cardinality({ j \in 1 .. n :
                        \/ KeyLess(key(seq[j]), key(seq[i]))
                        \/ (key(seq[j]) = key(seq[i]) /\ j < i) }) + 1
    IN  [p \in 1 .. n |-> seq[CHOOSE i \in 1 .. n : rank(i) = p]]

\* the concatenation of a sequence of sequences
RECURSIVE Concat(_)
Concat(ss) == IF ss = <<>> THEN <<>> ELSE Head(ss) \o Concat(Tail(ss))

\* the elements of a sequence
Elems(seq) == { seq[i] : i \in 1 .. Len(seq) }

\* the sequences of pairwise different elements of S, of length at most n
DistinctSeqs(S, n) ==
    UNION { { q \in [1 .. k -> S] : \A i, j \in 1 .. k : i # j => q[i] # q[j] } :
            k \in 0 .. n }

----------------------------------------------------------------------------
(* tf2svg.py: class RoutingGrid *)

grid_cols(width) == width \div cell_size + 1
grid_rows(height) == height \div cell_size + 1

to_grid(x, y) == <<x \div cell_size, y \div cell_size>>

\* block_rect that leaves the margin out
block_rect_bare(ncols, nrows, x, y, w, h, margin) ==
    LET g1 == to_grid(x, y)
        g2 == to_grid(x + w, y + h)
    IN  { <<gx, gy>> : gx \in Range(Max2(0, g1[1]), Min2(ncols, g2[1] + 1)),
                       gy \in Range(Max2(0, g1[2]), Min2(nrows, g2[2] + 1)) }

\* the cells block_rect adds to self.blocked
block_rect(ncols, nrows, x, y, w, h, margin) ==
    LET g1 == to_grid(x - margin, y - margin)
        g2 == to_grid(x + w + margin, y + h + margin)
    IN  { <<gx, gy>> : gx \in Range(Max2(0, g1[1]), Min2(ncols, g2[1] + 1)),
                       gy \in Range(Max2(0, g1[2]), Min2(nrows, g2[2] + 1)) }

is_clear_h(b, y, x1, x2) ==
    LET gy == y \div cell_size
        xmin == Min2(x1, x2)
        xmax == Max2(x1, x2)
    IN  \A gx \in Range(xmin \div cell_size, xmax \div cell_size + 1) :
            /\ <<gx, gy>> \notin b
            /\ <<gx, gy - 1>> \notin b
            /\ <<gx, gy + 1>> \notin b

is_clear_v(b, x, y1, y2) ==
    LET gx == x \div cell_size
        ymin == Min2(y1, y2)
        ymax == Max2(y1, y2)
    IN  \A gy \in Range(ymin \div cell_size, ymax \div cell_size + 1) :
            <<gx, gy>> \notin b

\* find_h_channel: the exclusive upper limit of range(0, stop, GRID)
channel_stop(y1, y2) == (Max2(y1, y2) - Min2(y1, y2)) \div 2 + GRID * 8

\* find_h_channel: whether the candidate row y is accepted
channel_ok(b, y, y1, y2, x1, x2) ==
    /\ Min2(y1, y2) - GRID * 2 <= y
    /\ y <= Max2(y1, y2) + GRID * 2
    /\ is_clear_h(b, y, x1, x2)

\* find_h_channel: the rows tried at one offset, in the order tried
channel_candidates(off, y1, y2) == <<Min2(y1, y2) + off, Max2(y1, y2) - off>>

\* find_h_channel as a whole: [found, y]
find_h_channel_result(b, y1, y2, x1, x2) ==
    LET stop == channel_stop(y1, y2)
        offs == { k * GRID : k \in 0 .. (stop \div GRID) } \cap Range(0, stop)
        hit(off) == \E i \in 1..2 :
                        channel_ok(b, channel_candidates(off, y1, y2)[i], y1, y2, x1, x2)
        hits == { off \in offs : hit(off) }
    IN  IF hits = {}
        THEN [found |-> FALSE, y |-> (y1 + y2) \div 2]
        ELSE LET off == CHOOSE o \in hits : \A o2 \in hits : o <= o2
                 c == channel_candidates(off, y1, y2)
             IN  [found |-> TRUE,
                  y |-> IF channel_ok(b, c[1], y1, y2, x1, x2) THEN c[1] ELSE c[2]]

\* _simplify that compares the x steps only
_simplify_dx(points) ==
    IF Len(points) <= 2
    THEN points
    ELSE LET keep(i) ==
                 LET dx1 == points[i][1] - points[i - 1][1]
                     dx2 == points[i + 1][1] - points[i][1]
                 IN  (dx1 = 0) # (dx2 = 0)
             interior == SelectSeq([i \in 1 .. (Len(points) - 2) |-> i + 1], keep)
         IN  <<points[1]>> \o [j \in 1 .. Len(interior) |-> points[interior[j]]]
                 \o <<points[Len(points)]>>

find_h_channel(b, y1, y2, x1, x2) == find_h_channel_result(b, y1, y2, x1, x2).y

_simplify(points) ==
    IF Len(points) <= 2
    THEN points
    ELSE LET keep(i) ==
                 LET p0 == points[i - 1]
                     p1 == points[i]
                     p2 == points[i + 1]
                     dx1 == p1[1] - p0[1]
                     dy1 == p1[2] - p0[2]
                     dx2 == p2[1] - p1[1]
                     dy2 == p2[2] - p1[2]
                 IN  ((dx1 = 0) # (dx2 = 0)) \/ ((dy1 = 0) # (dy2 = 0))
             interior == SelectSeq([i \in 1 .. (Len(points) - 2) |-> i + 1], keep)
         IN  <<points[1]>> \o [j \in 1 .. Len(interior) |-> points[interior[j]]]
                 \o <<points[Len(points)]>>

\* has_obstacle without the test of line 241: the cells of the source and of
\* the target count as obstacles too
has_obstacle_any(b, x1, y1, x2) ==
    \E gx \in Range(x1 \div cell_size, x2 \div cell_size + 1) :
        <<gx, y1 \div cell_size>> \in b

\* route, lines 234-242: a blocked cell of the source row strictly inside the span
has_obstacle(b, x1, y1, x2) ==
    \E gx \in Range(x1 \div cell_size, x2 \div cell_size + 1) :
        /\ <<gx, y1 \div cell_size>> \in b
        /\ gx > (x1 + NODE_W) \div cell_size
        /\ gx < (x2 - NODE_W) \div cell_size

\* route, lines 272-278: the five points appended for a channel at channel_y
channel_points(x1, y1, x2, y2, channel_y) ==
    LET mid_x1 == x1 + H_GAP \div 3
        mid_x2 == x2 - H_GAP \div 3
    IN  << <<x1, y1>>, <<mid_x1, y1>>, <<mid_x1, channel_y>>,
           <<mid_x2, channel_y>>, <<mid_x2, y2>>, <<x2, y2>> >>

\* route up to the call of find_h_channel: the branch taken and, unless the
\* branch is "search", the value returned
route_plan(b, x1, y1, x2, y2) ==
    LET mid_x1 == x1 + H_GAP \div 3
        y_above == Min2(y1, y2) - ROUTE_MARGIN * 2
        y_below == Max2(y1, y2) + ROUTE_MARGIN * 2
        obst == has_obstacle(b, x1, y1, x2)
    IN  IF Abs(y1 - y2) <= GRID /\ is_clear_h(b, y1, Min2(x1, x2), Max2(x1, x2))
        THEN [branch |-> "straight", channel_y |-> y1,
              waypoints |-> << <<x1, y1>>, <<x2, y2>> >>]
        ELSE IF ~obst /\ Abs(y1 - y2) <= GRID
        THEN [branch |-> "direct", channel_y |-> y1,
              waypoints |-> << <<x1, y1>>, <<x2, y2>> >>]
        ELSE IF is_clear_v(b, mid_x1, y1, y2) /\ ~obst
        THEN [branch |-> "L", channel_y |-> y1,
              waypoints |-> _simplify(<< <<x1, y1>>, <<mid_x1, y1>>,
                                         <<mid_x1, y2>>, <<x2, y2>> >>)]
        ELSE IF y_above > 0 /\ is_clear_h(b, y_above, x1, x2)
        THEN [branch |-> "above", channel_y |-> y_above,
              waypoints |-> _simplify(channel_points(x1, y1, x2, y2, y_above))]
        ELSE IF is_clear_h(b, y_below, x1, x2)
        THEN [branch |-> "below", channel_y |-> y_below,
              waypoints |-> _simplify(channel_points(x1, y1, x2, y2, y_below))]
        ELSE [branch |-> "search", channel_y |-> y1, waypoints |-> <<>>]

\* route as a whole: the branch, the channel row and the value returned
route_result(b, x1, y1, x2, y2) ==
    LET pl == route_plan(b, x1, y1, x2, y2)
        f == find_h_channel_result(b, y1, y2, x1, x2)
    IN  IF pl.branch # "search"
        THEN pl
        ELSE [branch |-> IF f.found THEN "found" ELSE "fallback",
              channel_y |-> f.y,
              waypoints |-> _simplify(channel_points(x1, y1, x2, y2, f.y))]

route(b, x1, y1, x2, y2) == route_result(b, x1, y1, x2, y2).waypoints

\* a route that reserves the cell where it enters its channel row
route_blocked_reserving(b, x1, y1, x2, y2) ==
    b \cup { to_grid(x1, route_result(b, x1, y1, x2, y2).channel_y) }

\* what a call of route leaves in self.blocked, self.used_h and self.used_v:
\* route and the helpers it calls only read them
route_blocked(b, x1, y1, x2, y2) == b
route_used(u, x1, y1, x2, y2) == u

----------------------------------------------------------------------------
(* A RoutingGrid object: constructed, then block_rect, route and _simplify *)
(* called with arguments drawn from small sets                             *)

\* RoutingGrid(width, height)
GridSizes == { <<400, 300>>, <<150, 100>> }

\* arguments of block_rect: a thin post in the source row, a post below the
\* lower anchor, a wall over the whole height, a block in the first column,
\* and a node-sized rectangle with the default margin
Rects == { [x |-> 144, y |-> 20, w |-> 0, h |-> 40, margin |-> 0],
           [x |-> 144, y |-> 224, w |-> 0, h |-> 32, margin |-> 0],
           [x |-> 144, y |-> 0, w |-> 0, h |-> 300, margin |-> 0],
           [x |-> 0, y |-> 80, w |-> 8, h |-> 16, margin |-> 0],
           [x |-> 112, y |-> 96, w |-> NODE_W, h |-> NODE_H, margin |-> ROUTE_MARGIN] }

\* anchors handed to route
AnchorX == { 0, 300 }
AnchorY == { 40, 48, 200 }

\* waypoint lists handed to _simplify
Waypoints == (0 .. (MaxCoord + 1)) \X (0 .. MaxCoord)
WaypointLists == UNION { [1 .. n -> Waypoints] : n \in 0 .. MaxLen }

NoCall == [op |-> "none", x1 |-> 0, y1 |-> 0, x2 |-> 0, y2 |-> 0,
           points |-> <<>>, waypoints |-> <<>>, branch |-> "none", channel_y |-> 0]

\* graph2svg.main is not running
DotIdle ==
    /\ dot = <<>>
    /\ dpc = "idle"
    /\ g_nodes = <<>>
    /\ g_edges = <<>>
    /\ intra_edges = <<>>
    /\ cross_edges = <<>>
    /\ g_L = <<>>

\* sanitize is not running
SanIdle ==
    /\ tf_state = <<>>
    /\ tf_twin = <<>>
    /\ clean = <<>>
    /\ clean_twin = <<>>

\* infer_connections is not running
ConIdle ==
    /\ tfd_resources = <<>>
    /\ connections = <<>>
    /\ con_seen = {}
    /\ cpc = "idle"

\* no layout function is being called on its own
LayoutIdle ==
    /\ lkind = "none"
    /\ lin = <<>>
    /\ lout = <<>>

\* generate_svg is not running
SvgIdle ==
    /\ data_in = [fmt |-> "none", resources |-> <<>>, dependencies |-> <<>>]
    /\ title = FALSE
    /\ spc = "idle"
    /\ data = [resources |-> <<>>, dependencies |-> <<>>, modules |-> <<>>]
    /\ L = [pos |-> <<>>, mods |-> <<>>, w |-> 0, h |-> 0]
    /\ di = 0
    /\ paths = <<>>
    /\ run = 0
    /\ prev = <<>>

InitGrid ==
    /\ SvgIdle
    /\ LayoutIdle
    /\ DotIdle
    /\ SanIdle
    /\ ConIdle
    /\ \E wh \in GridSizes :
          /\ cols = grid_cols(wh[1])
          /\ rows = grid_rows(wh[2])
    /\ blocked = {}
    /\ used_h = {}
    /\ used_v = {}
    /\ gpc = "idle"
    /\ offset = 0
    /\ examined = 0
    /\ call = NoCall

BlockRect(r) ==
    /\ gpc = "idle"
    /\ blocked' = blocked \cup block_rect(cols, rows, r.x, r.y, r.w, r.h, r.margin)
    /\ call' = NoCall
    /\ offset' = 0
    /\ examined' = 0
    /\ UNCHANGED <<cols, rows, used_h, used_v, gpc>>
    /\ UNCHANGED svgVars
    /\ UNCHANGED layVars
    /\ UNCHANGED dotVars
    /\ UNCHANGED sanVars
    /\ UNCHANGED conVars

\* route, when it returns without calling find_h_channel
RouteReturn(x1, y1, x2, y2) ==
    LET pl == route_plan(blocked, x1, y1, x2, y2)
    IN  /\ gpc = "idle"
        /\ pl.branch # "search"
        /\ call' = [op |-> "route", x1 |-> x1, y1 |-> y1, x2 |-> x2, y2 |-> y2,
                    points |-> <<>>, waypoints |-> pl.waypoints,
                    branch |-> pl.branch, channel_y |-> pl.channel_y]
        /\ blocked' = route_blocked(blocked, x1, y1, x2, y2)
        /\ used_h' = route_used(used_h, x1, y1, x2, y2)
        /\ used_v' = route_used(used_v, x1, y1, x2, y2)
        /\ examined' = 0
        /\ UNCHANGED <<cols, rows, gpc, offset>>
        /\ UNCHANGED svgVars
        /\ UNCHANGED layVars
        /\ UNCHANGED dotVars
        /\ UNCHANGED sanVars
        /\ UNCHANGED conVars
    /\ UNCHANGED layVars
    /\ UNCHANGED dotVars
    /\ UNCHANGED sanVars
    /\ UNCHANGED conVars

\* route, when it reaches line 270 and enters find_h_channel
RouteSearch(x1, y1, x2, y2) ==
    LET pl == route_plan(blocked, x1, y1, x2, y2)
    IN  /\ gpc = "idle"
        /\ pl.branch = "search"
        /\ call' = [op |-> "route", x1 |-> x1, y1 |-> y1, x2 |-> x2, y2 |-> y2,
                    points |-> <<>>, waypoints |-> <<>>,
                    branch |-> "search", channel_y |-> 0]
        /\ gpc' = "find_h_channel"
        /\ offset' = 0
        /\ examined' = 0
        /\ UNCHANGED <<cols, rows, blocked, used_h, used_v>>
        /\ UNCHANGED svgVars
        /\ UNCHANGED layVars
        /\ UNCHANGED dotVars
        /\ UNCHANGED sanVars
        /\ UNCHANGED conVars
    /\ UNCHANGED layVars
    /\ UNCHANGED dotVars
    /\ UNCHANGED sanVars
    /\ UNCHANGED conVars

\* find_h_channel returns y to route, which builds and returns the channel path
FinishRoute(found, y) ==
    /\ call' = [call EXCEPT !.branch = IF found THEN "found" ELSE "fallback",
                            !.channel_y = y,
                            !.waypoints = _simplify(channel_points(call.x1, call.y1,
                                                                   call.x2, call.y2, y))]
    /\ gpc' = "idle"
    /\ blocked' = route_blocked(blocked, call.x1, call.y1, call.x2, call.y2)
    /\ used_h' = route_used(used_h, call.x1, call.y1, call.x2, call.y2)
    /\ used_v' = route_used(used_v, call.x1, call.y1, call.x2, call.y2)

\* the loop of find_h_channel with an offset that is never advanced
FindHChannelStepStuck ==
    LET c == channel_candidates(offset, call.y1, call.y2)
        ok(y) == channel_ok(blocked, y, call.y1, call.y2, call.x1, call.x2)
    IN  /\ gpc = "find_h_channel"
        /\ offset < channel_stop(call.y1, call.y2)
        /\ IF ok(c[1])
           THEN /\ FinishRoute(TRUE, c[1])
                /\ examined' = examined + 1
                /\ UNCHANGED offset
           ELSE IF ok(c[2])
           THEN /\ FinishRoute(TRUE, c[2])
                /\ examined' = examined + 2
                /\ UNCHANGED offset
           ELSE UNCHANGED <<blocked, used_h, used_v, gpc, call, offset, examined>>
        /\ UNCHANGED <<cols, rows>>
        /\ UNCHANGED svgVars
        /\ UNCHANGED layVars
        /\ UNCHANGED dotVars
        /\ UNCHANGED sanVars
        /\ UNCHANGED conVars
    /\ UNCHANGED layVars
    /\ UNCHANGED dotVars
    /\ UNCHANGED sanVars
    /\ UNCHANGED conVars

\* one iteration of the loop over offset in find_h_channel
FindHChannelStep ==
    LET c == channel_candidates(offset, call.y1, call.y2)
        ok(y) == channel_ok(blocked, y, call.y1, call.y2, call.x1, call.x2)
    IN  /\ gpc = "find_h_channel"
        /\ offset < channel_stop(call.y1, call.y2)
        /\ IF ok(c[1])
           THEN /\ FinishRoute(TRUE, c[1])
                /\ examined' = examined + 1
                /\ UNCHANGED offset
           ELSE IF ok(c[2])
           THEN /\ FinishRoute(TRUE, c[2])
                /\ examined' = examined + 2
                /\ UNCHANGED offset
           ELSE /\ offset' = offset + GRID
                /\ examined' = examined + 2
                /\ UNCHANGED <<blocked, used_h, used_v, gpc, call>>
        /\ UNCHANGED <<cols, rows>>
        /\ UNCHANGED svgVars
        /\ UNCHANGED layVars
        /\ UNCHANGED dotVars
        /\ UNCHANGED sanVars
        /\ UNCHANGED conVars
    /\ UNCHANGED layVars
    /\ UNCHANGED dotVars
    /\ UNCHANGED sanVars
    /\ UNCHANGED conVars

\* the loop of find_h_channel is exhausted: line 219
FindHChannelFallback ==
    /\ gpc = "find_h_channel"
    /\ offset >= channel_stop(call.y1, call.y2)
    /\ FinishRoute(FALSE, (call.y1 + call.y2) \div 2)
    /\ UNCHANGED <<cols, rows, offset, examined>>
    /\ UNCHANGED svgVars
    /\ UNCHANGED layVars
    /\ UNCHANGED dotVars
    /\ UNCHANGED sanVars
    /\ UNCHANGED conVars

NextGrid ==
    \/ \E r \in Rects : BlockRect(r)
    \/ \E x1 \in AnchorX, y1 \in AnchorY, x2 \in AnchorX, y2 \in AnchorY :
          RouteReturn(x1, y1, x2, y2)
    \/ \E x1 \in AnchorX, y1 \in AnchorY, x2 \in AnchorX, y2 \in AnchorY :
          RouteSearch(x1, y1, x2, y2)
    \/ FindHChannelStep
    \/ FindHChannelFallback

SpecGrid == InitGrid /\ [][NextGrid]_vars

\* the channel search is never abandoned half way
FairSpecGrid == SpecGrid /\ WF_vars(FindHChannelStep) /\ WF_vars(FindHChannelFallback)

\* the stepwise search and find_h_channel as one function agree
RouteAgrees ==
    (call.op = "route" /\ gpc = "idle") =>
        LET r == route_result(blocked, call.x1, call.y1, call.x2, call.y2)
        IN  /\ call.waypoints = r.waypoints
            /\ call.branch = r.branch
            /\ call.channel_y = r.channel_y

Branches == { "straight", "direct", "L", "above", "below", "found", "fallback" }
SeenBranch(br) == gpc = "idle" /\ call.op = "route" /\ call.branch = br
NotStraight == ~SeenBranch("straight")
NotDirect == ~SeenBranch("direct")
NotL == ~SeenBranch("L")
NotAbove == ~SeenBranch("above")
NotBelow == ~SeenBranch("below")
NotFound == ~SeenBranch("found")
NotFallback == ~SeenBranch("fallback")

----------------------------------------------------------------------------
(* _simplify applied to a waypoint list, and then to its own result *)

InitSimplify ==
    /\ SvgIdle
    /\ LayoutIdle
    /\ DotIdle
    /\ SanIdle
    /\ ConIdle
    /\ cols = 1
    /\ rows = 1
    /\ blocked = {}
    /\ used_h = {}
    /\ used_v = {}
    /\ gpc = "idle"
    /\ offset = 0
    /\ examined = 0
    /\ \E p \in WaypointLists : call = [NoCall EXCEPT !.op = "pending", !.points = p]

SimplifyCall ==
    /\ call.op = "pending"
    /\ call' = [call EXCEPT !.op = "_simplify", !.waypoints = _simplify(call.points)]
    /\ UNCHANGED <<cols, rows, blocked, used_h, used_v, gpc, offset, examined>>
    /\ UNCHANGED svgVars
    /\ UNCHANGED layVars
    /\ UNCHANGED dotVars
    /\ UNCHANGED sanVars
    /\ UNCHANGED conVars

\* the list returned is handed to _simplify again
SimplifyAgain ==
    /\ call.op = "_simplify"
    /\ call' = [call EXCEPT !.op = "_simplify again", !.points = call.waypoints,
                            !.waypoints = _simplify(call.waypoints)]
    /\ UNCHANGED <<cols, rows, blocked, used_h, used_v, gpc, offset, examined>>
    /\ UNCHANGED svgVars
    /\ UNCHANGED layVars
    /\ UNCHANGED dotVars
    /\ UNCHANGED sanVars
    /\ UNCHANGED conVars

NextSimplify == SimplifyCall \/ SimplifyAgain

SpecSimplify == InitSimplify /\ [][NextSimplify]_vars

----------------------------------------------------------------------------
(* Properties of RoutingGrid *)

Returned == gpc = "idle" /\ call.op = "route"

Orthogonal(p, q) == p[1] = q[1] \/ p[2] = q[2]

\* the grid cells an axis-parallel segment passes through
SegCells(p, q) ==
    IF p[2] = q[2]
    THEN { <<gx, p[2] \div cell_size>> :
              gx \in (Min2(p[1], q[1]) \div cell_size) .. (Max2(p[1], q[1]) \div cell_size) }
    ELSE IF p[1] = q[1]
    THEN { <<p[1] \div cell_size, gy>> :
              gy \in (Min2(p[2], q[2]) \div cell_size) .. (Max2(p[2], q[2]) \div cell_size) }
    ELSE {}

PathCells(wp) == UNION { SegCells(wp[i], wp[i + 1]) : i \in 1 .. (Len(wp) - 1) }

\* C2: every list route returns starts at (x1,y1), ends at (x2,y2) and has
\* only horizontal and vertical segments.
C2_RoutingValidity ==
    Returned =>
        /\ Len(call.waypoints) >= 2
        /\ call.waypoints[1] = <<call.x1, call.y1>>
        /\ call.waypoints[Len(call.waypoints)] = <<call.x2, call.y2>>
        /\ \A i \in 1 .. (Len(call.waypoints) - 1) :
              Orthogonal(call.waypoints[i], call.waypoints[i + 1])

\* C3: when route takes a channel whose row passed is_clear_h, no segment of
\* the returned polyline passes through a blocked cell.
C3_ChannelClearance ==
    (Returned /\ call.branch \in { "above", "below", "found" }) =>
        PathCells(call.waypoints) \cap blocked = {}

\* C4: _simplify is idempotent: simplifying the simplified list changes nothing.
C4_SimplifyIdempotent ==
    call.op = "_simplify again" => call.waypoints = call.points


\* the segment from p to q runs along the x axis, along the y axis
Horizontal(p, q) == p[2] = q[2] /\ p[1] # q[1]
Vertical(p, q) == p[1] = q[1] /\ p[2] # q[2]

\* the path does not turn at its i-th point: the segments into it and out of
\* it are both horizontal or both vertical
NoTurn(points, i) ==
    \/ Horizontal(points[i - 1], points[i]) /\ Horizontal(points[i], points[i + 1])
    \/ Vertical(points[i - 1], points[i]) /\ Vertical(points[i], points[i + 1])

AxisParallel(points) ==
    /\ \A i \in 1 .. (Len(points) - 1) :
          points[i][1] = points[i + 1][1] \/ points[i][2] = points[i + 1][2]
    /\ \A i \in 2 .. (Len(points) - 1) :
          ~(points[i - 1] = points[i] /\ points[i] = points[i + 1])

NumOffsets(y1, y2) == (channel_stop(y1, y2) + GRID - 1) \div GRID

C10_Bounded ==
    /\ gpc = "find_h_channel" =>
          /\ offset % GRID = 0
          /\ offset <= NumOffsets(call.y1, call.y2) * GRID
          /\ examined = 2 * (offset \div GRID)
    /\ examined <= 2 * NumOffsets(call.y1, call.y2)
    /\ (Returned /\ call.branch = "fallback") =>
          /\ examined = 2 * NumOffsets(call.y1, call.y2)
          /\ call.channel_y = (call.y1 + call.y2) \div 2
          /\ \A k \in 0 .. (NumOffsets(call.y1, call.y2) - 1), i \in 1..2 :
                ~channel_ok(blocked, channel_candidates(k * GRID, call.y1, call.y2)[i],
                            call.y1, call.y2, call.x1, call.x2)
    /\ Returned =>
          /\ Len(call.waypoints) >= 2
          /\ call.waypoints[1] = <<call.x1, call.y1>>
          /\ call.waypoints[Len(call.waypoints)] = <<call.x2, call.y2>>

\* C10: find_h_channel terminates after a bounded number of candidate rows
\* stepping by GRID, returns the midpoint (y1+y2)//2 when none is clear, and
\* route then still returns a waypoint list.
C10_SearchTerminates ==
    /\ []C10_Bounded
    /\ (gpc = "find_h_channel") ~> (Returned /\ call.branch \in { "found", "fallback" })

\* a search that tried every candidate row and fell back to the midpoint
C10_Witness ==
    /\ Returned
    /\ call.branch = "fallback"
    /\ examined = 2 * NumOffsets(call.y1, call.y2)
    /\ call.y1 # call.y2


\* a blocked cell of the source row lies strictly between the two ends, a
\* node's width away from either, whichever end is on the left
NodeBetween(b, x1, y1, x2) ==
    \E gx \in Range(Min2(x1, x2) \div cell_size, Max2(x1, x2) \div cell_size + 1) :
        /\ <<gx, y1 \div cell_size>> \in b
        /\ gx > (Min2(x1, x2) + NODE_W) \div cell_size
        /\ gx < (Max2(x1, x2) - NODE_W) \div cell_size

\* C19: route returns the L path only when the vertical segment at
\* x1 + H_GAP \div 3 crosses no blocked cell and no blocked cell lies strictly
\* between source and target; every other path that is not the straight one
\* runs through a channel.
C19_LRouteOnlyWhenClear ==
    (call.op = "route" /\ gpc = "idle") =>
        /\ call.branch = "L" =>
              /\ is_clear_v(blocked, call.x1 + H_GAP \div 3, call.y1, call.y2)
              /\ ~NodeBetween(blocked, call.x1, call.y1, call.x2)
        /\ call.branch \notin { "straight", "direct", "L" } =>
              call.waypoints =
                  _simplify(channel_points(call.x1, call.y1, call.x2, call.y2,
                                           call.channel_y))

----------------------------------------------------------------------------
(* tf2svg.py: resource configuration *)

SHOW_RESOURCES == {
    "aws_lambda_function", "aws_lambda_function_url",
    "aws_instance", "aws_ecs_service", "aws_ecs_cluster", "aws_eks_cluster",
    "aws_db_instance", "aws_rds_cluster", "aws_dynamodb_table",
    "aws_elasticache_cluster", "aws_redshift_cluster",
    "aws_s3_bucket", "aws_efs_file_system",
    "aws_lb", "aws_alb", "aws_cloudfront_distribution",
    "aws_route53_zone", "aws_api_gateway_rest_api", "aws_apigatewayv2_api",
    "aws_acm_certificate", "aws_wafv2_web_acl", "aws_cognito_user_pool",
    "aws_sqs_queue", "aws_sns_topic", "aws_sfn_state_machine",
    "aws_eventbridge_rule", "aws_kinesis_stream",
    "aws_codepipeline", "aws_ecr_repository" }

TIERS ==
    "aws_route53_zone" :> 0 @@
    "aws_wafv2_web_acl" :> 1 @@
    "aws_cloudfront_distribution" :> 2 @@
    "aws_api_gateway_rest_api" :> 2 @@
    "aws_apigatewayv2_api" :> 2 @@
    "aws_lb" :> 2 @@ "aws_alb" :> 2 @@
    "aws_lambda_function_url" :> 2 @@
    "aws_lambda_function" :> 3 @@
    "aws_ecs_service" :> 3 @@ "aws_instance" :> 3 @@
    "aws_s3_bucket" :> 4 @@ "aws_sqs_queue" :> 4 @@ "aws_sns_topic" :> 4 @@
    "aws_dynamodb_table" :> 5 @@ "aws_db_instance" :> 5 @@
    "aws_rds_cluster" :> 5 @@ "aws_elasticache_cluster" :> 5 @@
    "aws_acm_certificate" :> 6 @@ "aws_cognito_user_pool" :> 6

\* TIERS.get(r["type"], 4)
tier_of(rtype) == IF rtype \in DOMAIN TIERS THEN TIERS[rtype] ELSE 4

DEP_PATTERNS == <<
    <<"aws_lambda_function_url", "aws_lambda_function">>,
    <<"aws_lambda_function", "aws_dynamodb_table">>,
    <<"aws_lambda_function", "aws_s3_bucket">>,
    <<"aws_lambda_function", "aws_rds_cluster">>,
    <<"aws_lambda_function", "aws_sqs_queue">>,
    <<"aws_cloudfront_distribution", "aws_s3_bucket">>,
    <<"aws_cloudfront_distribution", "aws_lambda_function_url">>,
    <<"aws_api_gateway_rest_api", "aws_lambda_function">>,
    <<"aws_lb", "aws_ecs_service">>,
    <<"aws_ecs_service", "aws_dynamodb_table">>,
    <<"aws_sqs_queue", "aws_lambda_function">> >>

----------------------------------------------------------------------------
(* tf2svg.py: parse_state.  A resource is [address, type, name, module];    *)
(* module 0 is None (the root module).  For the "values" format the field  *)
(* resources lists the resources of root_module and its child modules in   *)
(* the order extract visits them.                                          *)

\* extract: the resources kept, in order
extract(resources) == SelectSeq(resources, LAMBDA r : r.type \in SHOW_RESOURCES)

\* the keys of by_mod_type, in insertion order
by_mod_type_keys(resources) ==
    LET k(i) == <<resources[i].module, resources[i].type>>
        first == SelectSeq([i \in 1 .. Len(resources) |-> i],
                           LAMBDA i : \A j \in 1 .. (i - 1) : k(j) # k(i))
    IN  [q \in 1 .. Len(first) |-> k(first[q])]

\* by_mod_type.get((mod, rtype), [])
by_mod_type(resources, mod, rtype) ==
    SelectSeq(resources, LAMBDA r : r.module = mod /\ r.type = rtype)

\* the dependencies inferred from DEP_PATTERNS
infer_deps(resources) ==
    LET keys == by_mod_type_keys(resources)
        for_key(pat, key) ==
            IF key[2] # pat[1]
            THEN <<>>
            ELSE LET mod == key[1]
                     srcs == by_mod_type(resources, mod, key[2])
                     own == by_mod_type(resources, mod, pat[2])
                     tgts == IF own = <<>> /\ mod # 0
                             THEN by_mod_type(resources, 0, pat[2])
                             ELSE own
                 IN  Concat([si \in 1 .. Len(srcs) |->
                                [ti \in 1 .. Len(tgts) |->
                                    [from |-> srcs[si].address,
                                     to |-> tgts[ti].address]]])
    IN  Concat([p \in 1 .. Len(DEP_PATTERNS) |->
                   Concat([q \in 1 .. Len(keys) |-> for_key(DEP_PATTERNS[p], keys[q])])])

\* the orders list(set(...)) can give the module names in
module_lists(resources) ==
    LET names == { r.module : r \in Elems(resources) } \ { 0 }
    IN  { q \in [1 .. Cardinality(names) -> names] :
             \A i, j \in 1 .. Cardinality(names) : i # j => q[i] # q[j] }

\* parse_state(data), with modules in the order ms
parse_state(d, ms) ==
    IF d.fmt = "values"
    THEN [resources |-> extract(d.resources),
          dependencies |-> infer_deps(extract(d.resources)),
          modules |-> ms]
    ELSE IF d.fmt = "resources"
    THEN [resources |-> d.resources, dependencies |-> d.dependencies, modules |-> <<>>]
    ELSE [resources |-> <<>>, dependencies |-> <<>>, modules |-> <<>>]

----------------------------------------------------------------------------
(* tf2svg.py: layout *)

\* the elements of a set of numbers in ascending order
Ascending(S) ==
    [p \in 1 .. Cardinality(S) |->
        CHOOSE m \in S : Cardinality({ x \in S : x < m }) = p - 1]

\* the modules in the order data["modules"] lists them, "_root" first
mod_order_as_listed(by_mod_names, ms) ==
    (IF 0 \in by_mod_names THEN <<0>> ELSE <<>>)
        \o SelectSeq(ms, LAMBDA m : m \in by_mod_names)

\* lines 382-385: "_root" (module 0) first, then the other modules sorted
mod_order(by_mod_names, ms) == Ascending(by_mod_names)

\* one entry of positions
node_pos(nx, ny) ==
    [x |-> nx, y |-> ny,
     cx |-> nx + NODE_W \div 2, cy |-> ny + NODE_H \div 2,
     l |-> nx, r |-> nx + NODE_W, t |-> ny, b |-> ny + NODE_H]

\* lines 394-425: the loop over mod_order, from its k-th module on
RECURSIVE layout_loop(_, _, _, _)
layout_loop(by_mod, order, k, acc) ==
    IF k > Len(order)
    THEN acc
    ELSE LET mod_name == order[k]
             mod_res == by_mod[mod_name]
             n == Len(mod_res)
             content_w == n * NODE_W + (n - 1) * H_GAP
             mod_w == content_w + MODULE_PAD * 2
             mod_h == NODE_H + MODULE_PAD * 2 + MODULE_HDR
             mod_x == CANVAS_PAD + USER_W
             ny == acc.y + MODULE_HDR + MODULE_PAD
             nx(i) == mod_x + MODULE_PAD + (i - 1) * (NODE_W + H_GAP)
             addrs == { mod_res[i].address : i \in 1 .. n }
             last(a) == CHOOSE i \in 1 .. n :
                            /\ mod_res[i].address = a
                            /\ \A j \in (i + 1) .. n : mod_res[j].address # a
             placed == [a \in addrs |-> node_pos(nx(last(a)), ny)]
         IN  layout_loop(by_mod, order, k + 1,
                 [pos |-> placed @@ acc.pos,
                  mods |-> (mod_name :> [x |-> mod_x, y |-> acc.y, w |-> mod_w, h |-> mod_h])
                               @@ acc.mods,
                  y |-> acc.y + mod_h + V_GAP,
                  max_w |-> Max2(acc.max_w, mod_x + mod_w)])

layout(d, ttl) ==
    LET resources == SelectSeq(d.resources, LAMBDA r : r.type \in SHOW_RESOURCES)
        names == { r.module : r \in Elems(resources) }
        by_mod == [m \in names |->
                      SortedBy(SelectSeq(resources, LAMBDA r : r.module = m),
                               LAMBDA r : <<tier_of(r.type), r.name>>)]
        title_h == IF ttl THEN 6 * GRID ELSE 0
        end == layout_loop(by_mod, mod_order(names, d.modules), 1,
                           [pos |-> <<>>, mods |-> <<>>,
                            y |-> CANVAS_PAD + title_h, max_w |-> 0])
        canvas_h == end.y - V_GAP + CANVAS_PAD
    IN  [pos |-> end.pos,
         mods |-> end.mods,
         user |-> [x |-> CANVAS_PAD, y |-> (CANVAS_PAD + title_h + canvas_h - 60) \div 2],
         w |-> end.max_w + CANVAS_PAD,
         h |-> canvas_h,
         title_y |-> IF ttl THEN CANVAS_PAD + 4 * GRID ELSE 0]

----------------------------------------------------------------------------
(* tf2svg.py: generate_svg(data, title), step by step *)

\* the data handed to generate_svg: resources of a few types in the root
\* module and in two child modules, named so that aws_s3_bucket and
\* aws_ecs_cluster tie on (tier, name)
SvgTypes == << "aws_lambda_function", "aws_s3_bucket", "aws_dynamodb_table",
               "aws_ecs_cluster", "aws_iam_role" >>
SvgNames == << 2, 1, 3, 1, 4 >>

Resource(m, i) ==
    [address |-> <<m, SvgTypes[i], SvgNames[i]>>, type |-> SvgTypes[i],
     name |-> SvgNames[i], module |-> m]

SvgResources ==
    { Resource(0, i) : i \in 1 .. 5 } \cup { Resource(1, i) : i \in { 1, 3 } }
        \cup { Resource(2, i) : i \in { 1, 2 } }

\* "terraform show -json" output: the root module's resources, then the child's
ValuesInputs ==
    { [fmt |-> "values", resources |-> q, dependencies |-> <<>>] :
        q \in { q \in DistinctSeqs(SvgResources, MaxRes) :
                   \A i \in 1 .. (Len(q) - 1) : q[i].module <= q[i + 1].module } }

\* the already simplified format: resources and at most two dependencies
\* between any of their addresses
SimpleResources == { Resource(0, 1), Resource(0, 2), Resource(0, 3),
                     Resource(1, 1), Resource(0, 5) }
DepLists(addrs) ==
    UNION { [1 .. k -> { [from |-> a, to |-> b] : a \in addrs, b \in addrs }] :
            k \in 0 .. 2 }
SimpleInputs ==
    UNION { { [fmt |-> "resources", resources |-> q, dependencies |-> ds] :
                ds \in DepLists({ q[i].address : i \in 1 .. Len(q) }) } :
            q \in { q \in DistinctSeqs(SimpleResources, MaxRes) :
                       \A i \in 1 .. (Len(q) - 1) :
                           KeyLess(<<q[i].module, q[i].name>>,
                                   <<q[i + 1].module, q[i + 1].name>>) } }

SvgInputs == ValuesInputs \cup SimpleInputs
                \cup { [fmt |-> "none", resources |-> <<>>, dependencies |-> <<>>] }

NoData == [resources |-> <<>>, dependencies |-> <<>>, modules |-> <<>>]
NoLayout == [pos |-> <<>>, mods |-> <<>>, w |-> 0, h |-> 0]

\* generate_svg is entered; no RoutingGrid exists yet
InitSvg ==
    /\ data_in \in SvgInputs
    /\ title \in BOOLEAN
    /\ spc = "parse"
    /\ data = NoData
    /\ L = NoLayout
    /\ di = 0
    /\ paths = <<>>
    /\ run = 1
    /\ prev = <<>>
    /\ cols = 0
    /\ rows = 0
    /\ blocked = {}
    /\ used_h = {}
    /\ used_v = {}
    /\ gpc = "idle"
    /\ offset = 0
    /\ examined = 0
    /\ call = NoCall
    /\ LayoutIdle
    /\ DotIdle
    /\ SanIdle
    /\ ConIdle

\* line 548
ParseState ==
    /\ spc = "parse"
    /\ \E ms \in module_lists(extract(data_in.resources)) :
          data' = parse_state(data_in, ms)
    /\ spc' = "layout"
    /\ UNCHANGED <<data_in, title, L, di, paths, run, prev>>
    /\ UNCHANGED gridVars
    /\ UNCHANGED layVars
    /\ UNCHANGED dotVars
    /\ UNCHANGED sanVars
    /\ UNCHANGED conVars

\* lines 549-552
Layout ==
    /\ spc = "layout"
    /\ L' = layout(data, title)
    /\ spc' = "grid"
    /\ UNCHANGED <<data_in, title, data, di, paths, run, prev>>
    /\ UNCHANGED gridVars
    /\ UNCHANGED layVars
    /\ UNCHANGED dotVars
    /\ UNCHANGED sanVars
    /\ UNCHANGED conVars

\* the cells blocked by lines 557-563: every node, every module header
blocked_by(ncols, nrows, lay) ==
    UNION ({ block_rect(ncols, nrows, lay.pos[a].x, lay.pos[a].y, NODE_W, NODE_H,
                        ROUTE_MARGIN) : a \in DOMAIN lay.pos }
           \cup { block_rect(ncols, nrows, lay.mods[m].x, lay.mods[m].y, lay.mods[m].w,
                             MODULE_HDR, ROUTE_MARGIN) : m \in DOMAIN lay.mods })

\* lines 554-563
GridInit ==
    /\ spc = "grid"
    /\ cols' = grid_cols(L.w)
    /\ rows' = grid_rows(L.h)
    /\ blocked' = blocked_by(grid_cols(L.w), grid_rows(L.h), L)
    /\ used_h' = {}
    /\ used_v' = {}
    /\ di' = 1
    /\ spc' = "route"
    /\ UNCHANGED <<data_in, title, data, L, paths, run, prev>>
    /\ UNCHANGED <<gpc, offset, examined, call>>
    /\ UNCHANGED layVars
    /\ UNCHANGED dotVars
    /\ UNCHANGED sanVars
    /\ UNCHANGED conVars

\* lines 588-589: the anchors of a dependency, <<x1, y1, x2, y2>>
anchors(lay, dep) ==
    << lay.pos[dep.from].r + 4, lay.pos[dep.from].cy,
       lay.pos[dep.to].l - 4, lay.pos[dep.to].cy >>

\* lines 585-593: one iteration of the loop over the dependencies
RouteDep ==
    /\ spc = "route"
    /\ di <= Len(data.dependencies)
    /\ LET dep == data.dependencies[di]
       IN  IF dep.from \in DOMAIN L.pos /\ dep.to \in DOMAIN L.pos
           THEN LET a == anchors(L, dep)
                IN  /\ paths' = Append(paths, [from |-> dep.from, to |-> dep.to,
                                               waypoints |-> route(blocked, a[1], a[2],
                                                                   a[3], a[4])])
                    /\ blocked' = route_blocked(blocked, a[1], a[2], a[3], a[4])
                    /\ used_h' = route_used(used_h, a[1], a[2], a[3], a[4])
                    /\ used_v' = route_used(used_v, a[1], a[2], a[3], a[4])
           ELSE UNCHANGED <<paths, blocked, used_h, used_v>>
    /\ di' = di + 1
    /\ UNCHANGED <<data_in, title, spc, data, L, run, prev>>
    /\ UNCHANGED <<cols, rows, gpc, offset, examined, call>>
    /\ UNCHANGED layVars
    /\ UNCHANGED dotVars
    /\ UNCHANGED sanVars
    /\ UNCHANGED conVars

\* the loop over the dependencies is over
ArrowsDone ==
    /\ spc = "route"
    /\ di > Len(data.dependencies)
    /\ spc' = "done"
    /\ UNCHANGED <<data_in, title, data, L, di, paths, run, prev>>
    /\ UNCHANGED gridVars
    /\ UNCHANGED layVars
    /\ UNCHANGED dotVars
    /\ UNCHANGED sanVars
    /\ UNCHANGED conVars

\* what one run of the pipeline computed
outcome == [pos |-> L.pos, mods |-> L.mods, w |-> L.w, h |-> L.h,
            blocked |-> blocked, paths |-> paths]

\* generate_svg is called again with the same arguments
Rerun ==
    /\ spc = "done"
    /\ run = 1
    /\ prev' = <<outcome, data.modules>>
    /\ run' = 2
    /\ spc' = "parse"
    /\ data' = NoData
    /\ L' = NoLayout
    /\ di' = 0
    /\ paths' = <<>>
    /\ cols' = 0
    /\ rows' = 0
    /\ blocked' = {}
    /\ UNCHANGED <<data_in, title, used_h, used_v, gpc, offset, examined, call>>
    /\ UNCHANGED layVars
    /\ UNCHANGED dotVars
    /\ UNCHANGED sanVars
    /\ UNCHANGED conVars

NextSvg == ParseState \/ Layout \/ GridInit \/ RouteDep \/ ArrowsDone

SpecSvg == InitSvg /\ [][NextSvg]_vars

NextSvgTwice == NextSvg \/ Rerun

SpecSvgTwice == InitSvg /\ [][NextSvgTwice]_vars

----------------------------------------------------------------------------
(* graph2svg.py: configuration.  GRID, NODE_W, NODE_H, MODULE_PAD,          *)
(* MODULE_HDR, CANVAS_PAD and USER_W have the values they have in tf2svg.py *)

graph_H_GAP == 6 * GRID
graph_V_GAP == 3 * GRID
ARROW_GAP == GRID
MODULE_GAP == 10 * GRID

FLOW_PATHS ==
    "aws_route53_zone" :> <<"cdn", 0>> @@
    "aws_wafv2_web_acl" :> <<"cdn", 1>> @@
    "aws_cloudfront_distribution" :> <<"cdn", 2>> @@
    "aws_s3_bucket" :> <<"cdn", 3>> @@
    "aws_api_gateway_rest_api" :> <<"api", 0>> @@
    "aws_apigatewayv2_api" :> <<"api", 0>> @@
    "aws_lb" :> <<"api", 0>> @@
    "aws_alb" :> <<"api", 0>> @@
    "aws_lambda_function_url" :> <<"compute", 0>> @@
    "aws_lambda_function" :> <<"compute", 1>> @@
    "aws_ecs_service" :> <<"compute", 1>> @@
    "aws_ecs_cluster" :> <<"compute", 1>> @@
    "aws_eks_cluster" :> <<"compute", 1>> @@
    "aws_instance" :> <<"compute", 1>> @@
    "aws_sqs_queue" :> <<"compute", 2>> @@
    "aws_sns_topic" :> <<"compute", 2>> @@
    "aws_eventbridge_rule" :> <<"compute", 2>> @@
    "aws_kinesis_stream" :> <<"compute", 2>> @@
    "aws_sfn_state_machine" :> <<"compute", 2>> @@
    "aws_dynamodb_table" :> <<"compute", 3>> @@
    "aws_db_instance" :> <<"compute", 3>> @@
    "aws_rds_cluster" :> <<"compute", 3>> @@
    "aws_elasticache_cluster" :> <<"compute", 3>> @@
    "aws_efs_file_system" :> <<"compute", 3>> @@
    "aws_acm_certificate" :> <<"support", 0>> @@
    "aws_cognito_user_pool" :> <<"support", 1>>

FLOW_ORDER == << "cdn", "api", "compute", "support" >>

FLOW_ENTRIES ==
    "cdn" :> { "aws_route53_zone" } @@
    "api" :> { "aws_api_gateway_rest_api", "aws_apigatewayv2_api", "aws_lb", "aws_alb" } @@
    "compute" :> { "aws_lambda_function_url" } @@
    "support" :> {}

\* Node(id, address, resource_type, name, module) with __post_init__; the id
\* is the node string, which names the module, the type and the name
Node(m, rtype, nm) ==
    [id |-> <<m, rtype, nm>>, resource_type |-> rtype, name |-> nm, module |-> m,
     flow |-> IF rtype \in DOMAIN FLOW_PATHS THEN FLOW_PATHS[rtype][1] ELSE "compute",
     position |-> IF rtype \in DOMAIN FLOW_PATHS THEN FLOW_PATHS[rtype][2] ELSE 0]

----------------------------------------------------------------------------
(* graph2svg.py: layout(nodes, title); nodes in the order the dict holds them *)

\* the nodes of one flow of a module sorted by name alone
by_flow_by_name(mod_nodes, flow) ==
    SortedBy(SelectSeq(mod_nodes, LAMBDA n : n.flow = flow),
             LAMBDA n : <<0, n.name>>)

\* the nodes of one flow of a module, sorted as line 460 sorts them
by_flow(mod_nodes, flow) ==
    SortedBy(SelectSeq(mod_nodes, LAMBDA n : n.flow = flow),
             LAMBDA n : <<n.position, n.name>>)

\* a row that would mark every node of an entry type, not only its first
is_entry_any(i, flow, rtype) ==
    /\ flow # "support"
    /\ rtype \in (IF flow \in DOMAIN FLOW_ENTRIES THEN FLOW_ENTRIES[flow] ELSE {})

\* lines 498-501: the i-th node (from 0) of a row is an entry point
is_entry(i, flow, rtype) ==
    /\ i = 0
    /\ flow # "support"
    /\ rtype \in (IF flow \in DOMAIN FLOW_ENTRIES THEN FLOW_ENTRIES[flow] ELSE {})

\* lines 487-506: the rows of one module placed from row r on
RECURSIVE graph_rows(_, _, _, _, _, _)
graph_rows(mod_nodes, present_flows, r, mod_x, row_y, acc) ==
    IF r > Len(present_flows)
    THEN acc
    ELSE LET flow == present_flows[r]
             flow_nodes == by_flow(mod_nodes, flow)
             row_x(i) == mod_x + MODULE_PAD + (i - 1) * (NODE_W + graph_H_GAP)
             ids == { flow_nodes[i].id : i \in 1 .. Len(flow_nodes) }
             last(a) == CHOOSE i \in 1 .. Len(flow_nodes) :
                            /\ flow_nodes[i].id = a
                            /\ \A j \in (i + 1) .. Len(flow_nodes) : flow_nodes[j].id # a
             placed == [a \in ids |-> [x |-> row_x(last(a)), y |-> row_y]]
             marked == SelectSeq([i \in 1 .. Len(flow_nodes) |-> i],
                                 LAMBDA i : is_entry(i - 1, flow,
                                                     flow_nodes[i].resource_type))
         IN  graph_rows(mod_nodes, present_flows, r + 1, mod_x,
                        row_y + NODE_H + graph_V_GAP,
                        [positions |-> placed @@ acc.positions,
                         entry_points |->
                             acc.entry_points \o
                             [k \in 1 .. Len(marked) |->
                                 [id |-> flow_nodes[marked[k]].id,
                                  pos |-> [x |-> row_x(marked[k]), y |-> row_y]]]])

\* the first of a non-empty sequence of numbers
MaxOf_first(q) == q[1]

\* the largest of a non-empty sequence of numbers
MaxOf(q) == CHOOSE m \in Elems(q) : \A x \in Elems(q) : x <= m

\* lines 449-510: the loop over mod_order, from its k-th module on
RECURSIVE graph_layout_loop(_, _, _, _)
graph_layout_loop(nodes, order, k, acc) ==
    IF k > Len(order)
    THEN acc
    ELSE LET mod_name == order[k]
             mod_nodes == SelectSeq(nodes, LAMBDA n : n.module = mod_name)
             present_flows == SelectSeq(FLOW_ORDER,
                                        LAMBDA f : by_flow(mod_nodes, f) # <<>>)
             max_nodes_in_row ==
                 MaxOf([r \in 1 .. Len(present_flows) |->
                           Len(by_flow(mod_nodes, present_flows[r]))])
             num_rows == Len(present_flows)
             content_w == max_nodes_in_row * NODE_W + (max_nodes_in_row - 1) * graph_H_GAP
             content_h == num_rows * NODE_H + (num_rows - 1) * graph_V_GAP
             mod_w == content_w + MODULE_PAD * 2
             mod_h == content_h + MODULE_PAD * 2 + MODULE_HDR
             mod_x == CANVAS_PAD + USER_W
             rws == graph_rows(mod_nodes, present_flows, 1, mod_x,
                               acc.y + MODULE_HDR + MODULE_PAD,
                               [positions |-> acc.positions,
                                entry_points |-> acc.entry_points])
         IN  IF mod_nodes = <<>> \/ present_flows = <<>>
             THEN graph_layout_loop(nodes, order, k + 1, acc)
             ELSE graph_layout_loop(nodes, order, k + 1,
                      [positions |-> rws.positions,
                       entry_points |-> rws.entry_points,
                       modules |-> (mod_name :> [x |-> mod_x, y |-> acc.y,
                                                 w |-> mod_w, h |-> mod_h])
                                       @@ acc.modules,
                       y |-> acc.y + mod_h + MODULE_GAP,
                       max_w |-> Max2(acc.max_w, mod_x + mod_w)])

graph_layout(nodes, ttl) ==
    LET names == { n.module : n \in Elems(nodes) }
        title_h == IF ttl THEN 6 * GRID ELSE 0
        end == graph_layout_loop(nodes, Ascending(names), 1,
                                 [positions |-> <<>>, entry_points |-> <<>>,
                                  modules |-> <<>>,
                                  y |-> CANVAS_PAD + title_h, max_w |-> 0])
        canvas_h == end.y - MODULE_GAP + CANVAS_PAD
    IN  [positions |-> end.positions,
         modules |-> end.modules,
         entry_points |-> end.entry_points,
         user |-> [x |-> CANVAS_PAD,
                   y |-> CANVAS_PAD + title_h
                           + (canvas_h - title_h - CANVAS_PAD * 2) \div 2 - 30],
         width |-> end.max_w + CANVAS_PAD,
         height |-> canvas_h,
         title_y |-> IF ttl THEN CANVAS_PAD + 4 * GRID ELSE 0]

----------------------------------------------------------------------------
(* graph2svg.py: parse_dot and parse_node.  A node string of the DOT text   *)
(* is [kind, module, rtype, name]: kind "resource" for a resource address,  *)
(* "other" for a string parse_node rejects by its text (provider[, var.,    *)
(* local., data., output., ...).  The id of a node is its string.           *)

graph_SKIP_RESOURCES == {
    "aws_route53_record",
    "aws_lb_target_group", "aws_lb_listener",
    "aws_security_group", "aws_security_group_rule",
    "aws_iam_role", "aws_iam_policy", "aws_iam_role_policy_attachment",
    "aws_cloudwatch_log_group", "aws_lambda_permission",
    "aws_s3_bucket_policy", "aws_s3_bucket_public_access_block",
    "aws_acm_certificate_validation" }

SUPPORT_SERVICES == { "aws_acm_certificate", "aws_cognito_user_pool" }

\* the id the node of string s gets
node_id(s) == <<s.module, s.rtype, s.name>>

\* parse_node(s): <<>> for None, else the one Node
parse_node(s) ==
    IF s.kind # "resource" THEN <<>>
    ELSE IF s.rtype \in graph_SKIP_RESOURCES THEN <<>>
    ELSE IF s.rtype \notin DOMAIN FLOW_PATHS THEN <<>>
    ELSE << Node(s.module, s.rtype, s.name) >>

\* lines 267-270: nodes after the string s of a line has been looked at
add_node(nodes, s) ==
    IF \E i \in 1 .. Len(nodes) : nodes[i].id = node_id(s)
    THEN nodes
    ELSE nodes \o parse_node(s)

\* whether a node of id a is in nodes
has_node(nodes, a) == \E i \in 1 .. Len(nodes) : nodes[i].id = a

\* the node of id a
node_of(nodes, a) == nodes[CHOOSE i \in 1 .. Len(nodes) : nodes[i].id = a]

\* parse_dot from line k on: [nodes, edges]
RECURSIVE parse_dot_loop(_, _, _)
parse_dot_loop(lines, k, acc) ==
    IF k > Len(lines)
    THEN acc
    ELSE LET src == lines[k][1]
             tgt == lines[k][2]
             nodes == add_node(add_node(acc.nodes, src), tgt)
         IN  parse_dot_loop(lines, k + 1,
                 [nodes |-> nodes,
                  edges |-> IF has_node(nodes, node_id(src))
                               /\ has_node(nodes, node_id(tgt))
                            THEN Append(acc.edges, [from_id |-> node_id(src),
                                                    to_id |-> node_id(tgt)])
                            ELSE acc.edges])

parse_dot(lines) == parse_dot_loop(lines, 1, [nodes |-> <<>>, edges |-> <<>>])

----------------------------------------------------------------------------
(* graph2svg.py: filter_edges(nodes, edges) *)


\* the test of lines 339-343 on the from-node alone
involves_support_from(from_node, to_node) ==
    from_node.resource_type \in SUPPORT_SERVICES

\* lines 339-343: an explicit edge with a support service at either end is
\* skipped
involves_support(from_node, to_node) ==
    \/ from_node.resource_type \in SUPPORT_SERVICES
    \/ to_node.resource_type \in SUPPORT_SERVICES

\* lines 331-364: the explicit edges from the k-th on; acc is [seen, intra, cross]
RECURSIVE explicit_edges(_, _, _, _)
explicit_edges(nodes, edges, k, acc) ==
    IF k > Len(edges)
    THEN acc
    ELSE LET e == edges[k]
             visible == has_node(nodes, e.from_id) /\ has_node(nodes, e.to_id)
             from_node == node_of(nodes, e.from_id)
             to_node == node_of(nodes, e.to_id)
             is_cross_module == from_node.module # to_node.module
             visual == IF from_node.position > to_node.position
                       THEN [from_id |-> e.to_id, to_id |-> e.from_id]
                       ELSE [from_id |-> e.from_id, to_id |-> e.to_id]
             edge_key == <<visual.from_id, visual.to_id>>
             skip == \/ ~visible
                     \/ involves_support(from_node, to_node)
                     \/ (~is_cross_module /\ from_node.flow # to_node.flow)
                     \/ edge_key \in acc.seen
         IN  explicit_edges(nodes, edges, k + 1,
                 IF skip
                 THEN acc
                 ELSE [seen |-> acc.seen \cup { edge_key },
                       intra |-> IF is_cross_module THEN acc.intra
                                 ELSE Append(acc.intra, visual),
                       cross |-> IF is_cross_module THEN Append(acc.cross, visual)
                                 ELSE acc.cross])

\* appends to acc.intra the edges of es whose key has not been seen, in turn
RECURSIVE add_unseen(_, _, _)
add_unseen(es, k, acc) ==
    IF k > Len(es)
    THEN acc
    ELSE LET edge_key == <<es[k].from_id, es[k].to_id>>
         IN  add_unseen(es, k + 1,
                 IF edge_key \in acc.seen
                 THEN acc
                 ELSE [acc EXCEPT !.seen = acc.seen \cup { edge_key },
                                  !.intra = Append(acc.intra, es[k])])

\* lines 366-389: the implicit edges between neighbours of a (module, flow) row
implicit_edges(nodes, acc) ==
    LET shown == SelectSeq(nodes, LAMBDA n : n.resource_type \notin SUPPORT_SERVICES)
        key(i) == <<shown[i].module, shown[i].flow>>
        first == SelectSeq([i \in 1 .. Len(shown) |-> i],
                           LAMBDA i : \A j \in 1 .. (i - 1) : key(j) # key(i))
        group(q) == SortedBy(SelectSeq(shown,
                                       LAMBDA n : <<n.module, n.flow>> = key(first[q])),
                             LAMBDA n : <<n.position, n.name>>)
        pairs(q) == [i \in 1 .. (Len(group(q)) - 1) |->
                        [from_id |-> group(q)[i].id, to_id |-> group(q)[i + 1].id]]
    IN  add_unseen(Concat([q \in 1 .. Len(first) |-> pairs(q)]), 1, acc)

\* appends to acc.cross the edges of es neither whose key nor whose reverse
\* key has been seen, in turn
RECURSIVE add_semantic(_, _, _)
add_semantic(es, k, acc) ==
    IF k > Len(es)
    THEN acc
    ELSE LET edge_key == <<es[k].from_id, es[k].to_id>>
             reverse_key == <<es[k].to_id, es[k].from_id>>
         IN  add_semantic(es, k + 1,
                 IF edge_key \in acc.seen \/ reverse_key \in acc.seen
                 THEN acc
                 ELSE [acc EXCEPT !.seen = acc.seen \cup { edge_key },
                                  !.cross = Append(acc.cross, es[k])])

\* lines 391-417: the semantic cross-module edges
semantic_edges(nodes, acc) ==
    LET shown == SelectSeq(nodes, LAMBDA n : n.resource_type \notin SUPPORT_SERVICES)
        cdn_endpoints ==
            SelectSeq(shown, LAMBDA n : n.resource_type \in
                          { "aws_s3_bucket", "aws_cloudfront_distribution" })
        api_entries ==
            SelectSeq(shown, LAMBDA n : n.resource_type \in
                          { "aws_lambda_function_url", "aws_api_gateway_rest_api",
                            "aws_apigatewayv2_api" })
        for_cdn(c) ==
            LET others == SelectSeq(api_entries, LAMBDA a : a.module # c.module)
            IN  [i \in 1 .. Len(others) |-> [from_id |-> c.id, to_id |-> others[i].id]]
    IN  add_semantic(Concat([i \in 1 .. Len(cdn_endpoints) |-> for_cdn(cdn_endpoints[i])]),
                     1, acc)

\* filter_edges with a fresh seen set for the implicit edges
filter_edges_fresh(nodes, edges) ==
    LET a1 == explicit_edges(nodes, edges, 1, [seen |-> {}, intra |-> <<>>, cross |-> <<>>])
        a2 == implicit_edges(nodes, [a1 EXCEPT !.seen = {}])
        a3 == semantic_edges(nodes, a2)
    IN  [intra |-> a3.intra, cross |-> a3.cross]

\* filter_edges(nodes, edges): [intra, cross]
filter_edges(nodes, edges) ==
    LET a1 == explicit_edges(nodes, edges, 1, [seen |-> {}, intra |-> <<>>, cross |-> <<>>])
        a2 == implicit_edges(nodes, a1)
        a3 == semantic_edges(nodes, a2)
    IN  [intra |-> a3.intra, cross |-> a3.cross]

\* svg_arrow(from_pos, to_pos), lines 718-731: the element drawn, with the
\* points it passes through; a Position is NODE_W wide and NODE_H high
svg_arrow(from_pos, to_pos) ==
    LET x1 == from_pos.x + NODE_W + ARROW_GAP
        y1 == from_pos.y + NODE_H \div 2
        x2 == to_pos.x - ARROW_GAP
        y2 == to_pos.y + NODE_H \div 2
        mid_x == (x1 + x2) \div 2
    IN  IF Abs(y1 - y2) < GRID * 2
        THEN [tag |-> "line", points |-> << <<x1, y1>>, <<x2, y2>> >>]
        ELSE [tag |-> "path",
              points |-> << <<x1, y1>>, <<mid_x, y1>>, <<mid_x, y2>>, <<x2, y2>> >>]

----------------------------------------------------------------------------
(* files2svg.py: configuration.  GRID, NODE_W, NODE_H, MODULE_PAD,          *)
(* MODULE_HDR, CANVAS_PAD and USER_W have the values they have in tf2svg.py *)

files_H_GAP == 48
files_V_GAP == 24
VPC_PAD == 16
MAX_PER_ROW == 6

\* RESOURCE_INFO, third component
RESOURCE_CATEGORY ==
    "aws_instance" :> "compute" @@
    "aws_launch_template" :> "compute" @@
    "aws_autoscaling_group" :> "compute" @@
    "aws_lambda_function" :> "compute" @@
    "aws_ecs_cluster" :> "compute" @@
    "aws_ecs_service" :> "compute" @@
    "aws_ecs_task_definition" :> "compute" @@
    "aws_eks_cluster" :> "compute" @@
    "aws_db_instance" :> "database" @@
    "aws_rds_cluster" :> "database" @@
    "aws_dynamodb_table" :> "database" @@
    "aws_elasticache_cluster" :> "database" @@
    "aws_elasticache_replication_group" :> "database" @@
    "aws_s3_bucket" :> "storage" @@
    "aws_efs_file_system" :> "storage" @@
    "aws_lb" :> "network" @@
    "aws_alb" :> "network" @@
    "aws_elb" :> "network" @@
    "aws_cloudfront_distribution" :> "network" @@
    "aws_route53_zone" :> "network" @@
    "aws_route53_record" :> "network" @@
    "aws_vpc" :> "network" @@
    "aws_subnet" :> "network" @@
    "aws_internet_gateway" :> "network" @@
    "aws_nat_gateway" :> "network" @@
    "aws_security_group" :> "security" @@
    "aws_wafv2_web_acl" :> "security" @@
    "aws_acm_certificate" :> "security" @@
    "aws_api_gateway_rest_api" :> "integration" @@
    "aws_apigatewayv2_api" :> "integration" @@
    "aws_sqs_queue" :> "integration" @@
    "aws_sns_topic" :> "integration" @@
    "aws_lambda_function_url" :> "integration"

files_SKIP_RESOURCES == {
    "aws_acm_certificate", "aws_acm_certificate_validation",
    "aws_api_gateway_deployment", "aws_api_gateway_integration",
    "aws_api_gateway_method", "aws_api_gateway_resource",
    "aws_api_gateway_stage", "aws_apigatewayv2_integration",
    "aws_apigatewayv2_route", "aws_apigatewayv2_stage",
    "aws_cloudfront_cache_policy", "aws_cloudfront_origin_access_control",
    "aws_cloudfront_origin_access_identity", "aws_cloudfront_response_headers_policy",
    "aws_cloudwatch_log_group", "aws_cloudwatch_log_subscription_filter",
    "aws_cloudwatch_metric_alarm", "aws_db_subnet_group",
    "aws_eip", "aws_elasticache_subnet_group",
    "aws_iam_instance_profile", "aws_iam_policy",
    "aws_iam_policy_document", "aws_iam_role",
    "aws_iam_role_policy", "aws_iam_role_policy_attachment",
    "aws_internet_gateway", "aws_kms_alias",
    "aws_kms_key", "aws_lambda_event_source_mapping",
    "aws_lambda_permission", "aws_lb_listener",
    "aws_lb_listener_certificate", "aws_lb_listener_rule",
    "aws_lb_target_group", "aws_lb_target_group_attachment",
    "aws_nat_gateway", "aws_network_interface",
    "aws_route", "aws_route53_record",
    "aws_route_table", "aws_route_table_association",
    "aws_s3_bucket_acl", "aws_s3_bucket_cors_configuration",
    "aws_s3_bucket_lifecycle_configuration", "aws_s3_bucket_notification",
    "aws_s3_bucket_ownership_controls", "aws_s3_bucket_policy",
    "aws_s3_bucket_public_access_block", "aws_s3_bucket_server_side_encryption_configuration",
    "aws_s3_bucket_versioning", "aws_s3_bucket_website_configuration",
    "aws_s3_object", "aws_secretsmanager_secret",
    "aws_secretsmanager_secret_version", "aws_security_group",
    "aws_security_group_rule", "aws_ssm_parameter",
    "aws_subnet", "aws_vpc",
    "aws_wafv2_web_acl_association" }
VPC_RESOURCES == {
    "aws_alb", "aws_db_instance", "aws_ecs_service",
    "aws_efs_file_system", "aws_eks_cluster", "aws_elasticache_cluster",
    "aws_elasticache_replication_group", "aws_elb", "aws_instance",
    "aws_lb", "aws_nat_gateway", "aws_rds_cluster" }
PUBLIC_INDICATORS == {
    "aws_alb", "aws_elb", "aws_instance",
    "aws_lb" }
PRIVATE_INDICATORS == {
    "aws_db_instance", "aws_efs_file_system", "aws_elasticache_cluster",
    "aws_elasticache_replication_group", "aws_rds_cluster" }
\* the place of a category among the categories, as strings compare
category_rank(c) ==
    CASE c = "compute" -> 1
      [] c = "database" -> 2
      [] c = "integration" -> 3
      [] c = "network" -> 4
      [] c = "security" -> 5
      [] c = "storage" -> 6

\* parse_tf_files, lines 303-337: the Resource made for a block of type rtype
\* named nm; hint is what the subnet reference says: "public", "private" or
\* "unknown"
FilesResource(rtype, nm, hint) ==
    [id |-> <<rtype, nm>>, resource_type |-> rtype, name |-> nm,
     category |-> IF rtype \in DOMAIN RESOURCE_CATEGORY
                  THEN RESOURCE_CATEGORY[rtype] ELSE "compute",
     tier |-> IF rtype \in PUBLIC_INDICATORS THEN "public"
              ELSE IF rtype \in PRIVATE_INDICATORS THEN "private"
              ELSE hint]

----------------------------------------------------------------------------
(* files2svg.py: layout_resources(resources, connections, group_by_tier);   *)
(* resources in the order the dict holds them                               *)

\* lines 507-514: the resources that go into tier t
by_tier(visible, t) ==
    SelectSeq(visible,
              LAMBDA r : IF r.resource_type \in VPC_RESOURCES
                         THEN r.tier = t
                         ELSE t = "external")

\* lines 597-606: the sort key of the serverless branch
flow_key(r) ==
    << IF r.resource_type \in { "aws_cloudfront_distribution", "aws_wafv2_web_acl" }
       THEN 0
       ELSE IF r.resource_type \in { "aws_api_gateway_rest_api", "aws_apigatewayv2_api",
                                    "aws_route53_zone" }
       THEN 1
       ELSE IF r.resource_type \in { "aws_lambda_function", "aws_lambda_function_url" }
       THEN 2
       ELSE IF r.resource_type = "aws_s3_bucket" THEN 3
       ELSE IF r.resource_type = "aws_dynamodb_table" THEN 4
       ELSE 5,
       r.name >>

\* positions[res.id] = Position(...) for the resources of q in turn, the k-th
\* one at at(k); a later entry for the same id replaces an earlier one
placed_at(q, at(_)) ==
    [a \in { q[k].id : k \in 1 .. Len(q) } |->
        at(CHOOSE k \in 1 .. Len(q) :
               /\ q[k].id = a
               /\ \A j \in (k + 1) .. Len(q) : q[j].id # a)]

\* the union of a sequence of functions, later ones first
RECURSIVE Merge(_)
Merge(fs) == IF fs = <<>> THEN <<>> ELSE fs[Len(fs)] @@ Merge(SubSeq(fs, 1, Len(fs) - 1))

\* lines 505-593: the VPC branch
layout_vpc(visible) ==
    LET tier_order == << "external", "public", "private" >>
        tiers_present == SelectSeq(tier_order, LAMBDA t : by_tier(visible, t) # <<>>)
        y0 == CANVAS_PAD + 6 * GRID
        tier_w_of(t) ==
            Len(by_tier(visible, t)) * NODE_W
                + (Len(by_tier(visible, t)) - 1) * files_H_GAP + MODULE_PAD * 2
        max_tier_w ==
            IF tiers_present = <<>>
            THEN 0
            ELSE MaxOf([k \in 1 .. Len(tiers_present) |-> tier_w_of(tiers_present[k])])
        tier_h == NODE_H + MODULE_PAD * 2 + MODULE_HDR
        tier_x(t) == IF t # "external"
                     THEN CANVAS_PAD + USER_W + VPC_PAD
                     ELSE CANVAS_PAD + USER_W
        tier_y(k) == y0 + (k - 1) * (tier_h + files_V_GAP)
        sorted(t) == SortedBy(by_tier(visible, t),
                              LAMBDA r : <<category_rank(r.category), r.name>>)
        start_offset(t) ==
            (max_tier_w - (Len(sorted(t)) * NODE_W
                             + (Len(sorted(t)) - 1) * files_H_GAP)) \div 2
        tier_pos(k) ==
            LET t == tiers_present[k]
            IN  placed_at(sorted(t),
                          LAMBDA i : [x |-> tier_x(t) + start_offset(t)
                                              + (i - 1) * (NODE_W + files_H_GAP),
                                      y |-> tier_y(k) + MODULE_HDR + MODULE_PAD])
        order == Concat([k \in 1 .. Len(tiers_present) |->
                            [i \in 1 .. Len(sorted(tiers_present[k])) |->
                                sorted(tiers_present[k])[i].id]])
        vpc_ks == { k \in 1 .. Len(tiers_present) :
                       tiers_present[k] \in { "public", "private" } }
        vpc_y == tier_y(CHOOSE k \in vpc_ks : \A j \in vpc_ks : k <= j)
                    - MODULE_HDR - VPC_PAD
        vpc_bottom == tier_y(CHOOSE k \in vpc_ks : \A j \in vpc_ks : k >= j) + tier_h
    IN  [positions |-> Merge([k \in 1 .. Len(tiers_present) |-> tier_pos(k)]),
         order |-> order,
         tiers |-> [t \in Elems(tiers_present) |->
                      LET k == CHOOSE j \in 1 .. Len(tiers_present) : tiers_present[j] = t
                      IN  [x |-> tier_x(t), y |-> tier_y(k), w |-> max_tier_w,
                           h |-> tier_h, in_vpc |-> t \in { "public", "private" }]],
         vpc |-> IF vpc_ks = {}
                 THEN "None"
                 ELSE [x |-> CANVAS_PAD + USER_W, y |-> vpc_y,
                       w |-> max_tier_w + VPC_PAD * 2,
                       h |-> vpc_bottom - vpc_y + VPC_PAD],
         max_w |-> IF tiers_present = <<>>
                   THEN 0
                   ELSE MaxOf([k \in 1 .. Len(tiers_present) |->
                                  tier_x(tiers_present[k]) + max_tier_w]),
         y |-> tier_y(Len(tiers_present) + 1)]

\* a wrap that starts the next row without moving down
serverless_pos_one_row(i) ==
    [x |-> CANVAS_PAD + USER_W + files_H_GAP
             + ((i - 1) % MAX_PER_ROW) * (NODE_W + files_H_GAP),
     y |-> CANVAS_PAD + 6 * GRID]

\* lines 608-621: where the i-th resource (from 1) of all_resources is put
serverless_pos(i) ==
    [x |-> CANVAS_PAD + USER_W + files_H_GAP
             + ((i - 1) % MAX_PER_ROW) * (NODE_W + files_H_GAP),
     y |-> CANVAS_PAD + 6 * GRID
             + ((i - 1) \div MAX_PER_ROW) * (NODE_H + files_V_GAP * 2)]

\* lines 595-621: the serverless branch
layout_serverless(visible) ==
    LET all_resources == SortedBy(visible, flow_key)
        n == Len(all_resources)
        num_rows == (n + MAX_PER_ROW - 1) \div MAX_PER_ROW
        y0 == CANVAS_PAD + 6 * GRID
        x0 == CANVAS_PAD + USER_W + files_H_GAP
        row_len(r) == Min2(MAX_PER_ROW, n - r * MAX_PER_ROW)
    IN  [positions |-> placed_at(all_resources, serverless_pos),
         order |-> [i \in 1 .. n |-> all_resources[i].id],
         tiers |-> <<>>,
         vpc |-> "None",
         max_w |-> MaxOf([r \in 1 .. num_rows |->
                             x0 + row_len(r - 1) * (NODE_W + files_H_GAP)]),
         y |-> y0 + num_rows * (NODE_H + files_V_GAP * 2)]

layout_resources(resources, group_by_tier) ==
    LET visible == SelectSeq(resources,
                             LAMBDA r : r.resource_type \notin files_SKIP_RESOURCES)
        has_vpc_resources == \E r \in Elems(visible) : r.resource_type \in VPC_RESOURCES
        b == IF has_vpc_resources /\ group_by_tier
             THEN layout_vpc(visible)
             ELSE layout_serverless(visible)
    IN  IF visible = <<>>
        THEN [positions |-> <<>>, tiers |-> <<>>, vpc |-> "None",
              width |-> 400, height |-> 300, is_serverless |-> TRUE]
        ELSE [positions |-> b.positions,
              tiers |-> b.tiers,
              vpc |-> b.vpc,
              user |-> [x |-> CANVAS_PAD,
                        y |-> IF b.order # <<>>
                              THEN b.positions[b.order[1]].y
                              ELSE CANVAS_PAD + 100],
              width |-> b.max_w + CANVAS_PAD,
              height |-> b.y + CANVAS_PAD,
              is_serverless |-> ~has_vpc_resources]

----------------------------------------------------------------------------
(* The three layout functions, each called on arguments drawn from small    *)
(* sets                                                                     *)

\* arguments of tf2svg.layout
TfLayoutInputs ==
    { [data |-> [resources |-> q, dependencies |-> <<>>, modules |-> <<>>],
       title |-> t] :
        q \in DistinctSeqs(SvgResources, MaxRes), t \in BOOLEAN }

\* nodes parse_dot can produce: two cdn types, two api types that tie on
\* (position, name), two compute types whose names sort against their
\* positions, one support type
GraphNodes ==
    { Node(0, "aws_route53_zone", 1), Node(0, "aws_wafv2_web_acl", 1),
      Node(0, "aws_lb", 1), Node(0, "aws_api_gateway_rest_api", 1),
      Node(0, "aws_lambda_function_url", 2), Node(0, "aws_lambda_function", 1),
      Node(0, "aws_acm_certificate", 1),
      Node(1, "aws_lb", 1), Node(1, "aws_wafv2_web_acl", 1),
      Node(1, "aws_lambda_function", 1) }

\* arguments of graph2svg.layout
GraphLayoutInputs ==
    { [nodes |-> q, title |-> t] :
        q \in DistinctSeqs(GraphNodes, MaxRes), t \in BOOLEAN }

\* resources parse_tf_files can produce
FilesResources ==
    { FilesResource("aws_instance", 1, "unknown"),
      FilesResource("aws_db_instance", 1, "unknown"),
      FilesResource("aws_ecs_service", 1, "unknown"),
      FilesResource("aws_ecs_service", 2, "private"),
      FilesResource("aws_lambda_function", 1, "unknown"),
      FilesResource("aws_s3_bucket", 1, "unknown"),
      FilesResource("aws_cloudfront_distribution", 1, "unknown"),
      FilesResource("aws_iam_role", 1, "unknown") }

\* arguments of files2svg.layout_resources: a few resources of several
\* types, or many functions
FilesLayoutInputs ==
    { [resources |-> q, group_by_tier |-> g] :
        q \in DistinctSeqs(FilesResources, MaxRes)
                 \cup { [i \in 1 .. k |->
                            FilesResource("aws_lambda_function", k + 1 - i, "unknown")] :
                        k \in 0 .. MaxWide },
        g \in BOOLEAN }

InitLayouts ==
    /\ \/ lkind = "tf2svg" /\ lin \in TfLayoutInputs
       \/ lkind = "graph2svg" /\ lin \in GraphLayoutInputs
       \/ lkind = "files2svg" /\ lin \in FilesLayoutInputs
    /\ lout = <<>>
    /\ SvgIdle
    /\ DotIdle
    /\ SanIdle
    /\ ConIdle
    /\ cols = 0
    /\ rows = 0
    /\ blocked = {}
    /\ used_h = {}
    /\ used_v = {}
    /\ gpc = "idle"
    /\ offset = 0
    /\ examined = 0
    /\ call = NoCall

\* tf2svg.layout(data, title)
TfLayout ==
    /\ lkind = "tf2svg"
    /\ lout = <<>>
    /\ lout' = layout(lin.data, lin.title)
    /\ UNCHANGED <<lkind, lin>>
    /\ UNCHANGED gridVars
    /\ UNCHANGED svgVars
    /\ UNCHANGED dotVars
    /\ UNCHANGED sanVars
    /\ UNCHANGED conVars

\* graph2svg.layout(nodes, title)
GraphLayout ==
    /\ lkind = "graph2svg"
    /\ lout = <<>>
    /\ lout' = graph_layout(lin.nodes, lin.title)
    /\ UNCHANGED <<lkind, lin>>
    /\ UNCHANGED gridVars
    /\ UNCHANGED svgVars
    /\ UNCHANGED dotVars
    /\ UNCHANGED sanVars
    /\ UNCHANGED conVars

\* files2svg.layout_resources(resources, connections, group_by_tier)
LayoutResources ==
    /\ lkind = "files2svg"
    /\ lout = <<>>
    /\ lout' = layout_resources(lin.resources, lin.group_by_tier)
    /\ UNCHANGED <<lkind, lin>>
    /\ UNCHANGED gridVars
    /\ UNCHANGED svgVars
    /\ UNCHANGED dotVars
    /\ UNCHANGED sanVars
    /\ UNCHANGED conVars

NextLayouts == TfLayout \/ GraphLayout \/ LayoutResources

SpecLayouts == InitLayouts /\ [][NextLayouts]_vars

----------------------------------------------------------------------------
(* graph2svg.py: main on a DOT text, without --title: parse_dot,            *)
(* filter_edges, then layout inside generate_svg                            *)

\* the node strings of the text: two compute resources that tie on position,
\* an entry, a support service, a bucket in a child module, a resource of a
\* type FLOW_PATHS does not list, and a variable
DotStrings ==
    { [kind |-> "resource", module |-> 0, rtype |-> "aws_lambda_function", name |-> 2],
      [kind |-> "resource", module |-> 0, rtype |-> "aws_ecs_service", name |-> 1],
      [kind |-> "resource", module |-> 0, rtype |-> "aws_lambda_function_url", name |-> 1],
      [kind |-> "resource", module |-> 0, rtype |-> "aws_acm_certificate", name |-> 1],
      [kind |-> "resource", module |-> 1, rtype |-> "aws_s3_bucket", name |-> 1],
      [kind |-> "resource", module |-> 0, rtype |-> "aws_glue_job", name |-> 1],
      [kind |-> "other", module |-> 0, rtype |-> "var", name |-> 1] }

DotTexts == UNION { [1 .. n -> DotStrings \X DotStrings] : n \in 0 .. MaxLines }

InitDot ==
    /\ dot \in DotTexts
    /\ dpc = "parse"
    /\ g_nodes = <<>>
    /\ g_edges = <<>>
    /\ intra_edges = <<>>
    /\ cross_edges = <<>>
    /\ g_L = <<>>
    /\ LayoutIdle
    /\ SvgIdle
    /\ SanIdle
    /\ ConIdle
    /\ cols = 0
    /\ rows = 0
    /\ blocked = {}
    /\ used_h = {}
    /\ used_v = {}
    /\ gpc = "idle"
    /\ offset = 0
    /\ examined = 0
    /\ call = NoCall

\* line 875, first half
ParseDot ==
    /\ dpc = "parse"
    /\ g_nodes' = parse_dot(dot).nodes
    /\ g_edges' = parse_dot(dot).edges
    /\ dpc' = "filter"
    /\ UNCHANGED <<dot, intra_edges, cross_edges, g_L>>
    /\ UNCHANGED <<gridVars, svgVars, layVars, sanVars, conVars>>

\* line 876
FilterEdges ==
    /\ dpc = "filter"
    /\ intra_edges' = filter_edges(g_nodes, g_edges).intra
    /\ cross_edges' = filter_edges(g_nodes, g_edges).cross
    /\ dpc' = "layout"
    /\ UNCHANGED <<dot, g_nodes, g_edges, g_L>>
    /\ UNCHANGED <<gridVars, svgVars, layVars, sanVars, conVars>>

\* line 781, inside generate_svg
DotLayout ==
    /\ dpc = "layout"
    /\ g_L' = graph_layout(g_nodes, FALSE)
    /\ dpc' = "done"
    /\ UNCHANGED <<dot, g_nodes, g_edges, intra_edges, cross_edges>>
    /\ UNCHANGED <<gridVars, svgVars, layVars, sanVars, conVars>>

NextDot == ParseDot \/ FilterEdges \/ DotLayout

SpecDot == InitDot /\ [][NextDot]_vars

----------------------------------------------------------------------------
(* sanitizer.py: sanitize(data)                                            *)
(*                                                                         *)
(* A JSON null or a missing key is None; a string is Str(s); a dict is     *)
(* Dict(d) with d a function.  A tag key is the sequence of its            *)
(* characters, so that the substring test of extract_safe_attributes is    *)
(* computed.  An address is the sequence of its dot-separated parts.       *)

None == [kind |-> "null"]
Str(s) == [kind |-> "str", v |-> s]
Dict(d) == [kind |-> "dict", v |-> d]

\* bool(v) of Python
Truthy(v) ==
    CASE v.kind = "null" -> FALSE
      [] v.kind = "str" -> v.v # ""
      [] v.kind = "dict" -> DOMAIN v.v # {}

\* values.get(attr)
get(values, attr) == IF attr \in DOMAIN values THEN values[attr] ELSE None

DIAGRAM_RESOURCES == {
    "aws_instance", "aws_launch_template", "aws_launch_configuration",
    "aws_spot_instance_request", "aws_autoscaling_group",
    "aws_autoscaling_policy", "aws_lambda_function",
    "aws_lambda_function_url", "aws_lambda_alias",
    "aws_lambda_layer_version", "aws_elastic_beanstalk_environment",
    "aws_elastic_beanstalk_application", "aws_ecs_cluster",
    "aws_ecs_service", "aws_ecs_task_definition", "aws_ecr_repository",
    "aws_eks_cluster", "aws_eks_node_group", "aws_eks_fargate_profile",
    "aws_db_instance", "aws_db_cluster", "aws_rds_cluster",
    "aws_rds_cluster_instance", "aws_rds_proxy", "aws_dynamodb_table",
    "aws_dynamodb_global_table", "aws_elasticache_cluster",
    "aws_elasticache_replication_group", "aws_redshift_cluster",
    "aws_docdb_cluster", "aws_neptune_cluster", "aws_s3_bucket",
    "aws_efs_file_system", "aws_ebs_volume", "aws_fsx_lustre_file_system",
    "aws_fsx_windows_file_system", "aws_glacier_vault", "aws_backup_vault",
    "aws_backup_plan", "aws_storagegateway_gateway", "aws_vpc",
    "aws_internet_gateway", "aws_nat_gateway", "aws_vpn_gateway",
    "aws_customer_gateway", "aws_vpc_peering_connection", "aws_vpc_endpoint",
    "aws_transit_gateway", "aws_route53_zone", "aws_cloudfront_distribution",
    "aws_lb", "aws_alb", "aws_elb", "aws_api_gateway_rest_api",
    "aws_apigatewayv2_api", "aws_appsync_graphql_api",
    "aws_direct_connect_gateway", "aws_dx_connection", "aws_iam_role",
    "aws_acm_certificate", "aws_secretsmanager_secret", "aws_ssm_parameter",
    "aws_kms_key", "aws_wafv2_web_acl", "aws_waf_web_acl",
    "aws_wafregional_web_acl", "aws_shield_protection",
    "aws_cognito_user_pool", "aws_cognito_identity_pool", "aws_sqs_queue",
    "aws_sns_topic", "aws_sfn_state_machine", "aws_cloudwatch_event_rule",
    "aws_scheduler_schedule", "aws_mq_broker", "aws_msk_cluster",
    "aws_ses_domain_identity", "aws_ses_email_identity",
    "aws_kinesis_stream", "aws_kinesis_firehose_delivery_stream",
    "aws_athena_database", "aws_athena_workgroup",
    "aws_glue_catalog_database", "aws_glue_catalog_table", "aws_glue_job",
    "aws_glue_crawler", "aws_emr_cluster", "aws_opensearch_domain",
    "aws_elasticsearch_domain", "aws_quicksight_data_source",
    "aws_lakeformation_resource", "aws_cloudwatch_log_group",
    "aws_cloudwatch_metric_alarm", "aws_cloudwatch_dashboard",
    "aws_cloudformation_stack", "aws_cloudtrail", "aws_config_config_rule",
    "aws_ssm_document", "aws_ssm_maintenance_window",
    "aws_organizations_organization", "aws_organizations_account",
    "aws_sagemaker_endpoint", "aws_sagemaker_model",
    "aws_sagemaker_notebook_instance", "aws_sagemaker_training_job",
    "aws_bedrock_custom_model", "aws_rekognition_collection",
    "aws_iot_thing", "aws_iot_topic_rule", "aws_iot_policy",
    "aws_greengrass_group", "aws_codecommit_repository",
    "aws_codebuild_project", "aws_codepipeline", "aws_codedeploy_app",
    "aws_amplify_app" }

SAFE_ATTRIBUTES == {
    "name", "bucket", "function_name", "cluster_name", "domain_name",
    "description", "vpc_id", "subnet_id", "subnet_ids", "availability_zone",
    "availability_zones", "tags", "tags_all" }

\* str.lower() on one character
lower(c) ==
    LET up == << "A", "B", "C", "D", "E", "F", "G", "H", "I", "J", "K", "L", "M",
                 "N", "O", "P", "Q", "R", "S", "T", "U", "V", "W", "X", "Y", "Z" >>
        lo == << "a", "b", "c", "d", "e", "f", "g", "h", "i", "j", "k", "l", "m",
                 "n", "o", "p", "q", "r", "s", "t", "u", "v", "w", "x", "y", "z" >>
    IN  IF \E i \in 1 .. 26 : up[i] = c
        THEN lo[CHOOSE i \in 1 .. 26 : up[i] = c]
        ELSE c

\* sub in k
contains(sub, k) ==
    \E i \in 1 .. (Len(k) - Len(sub) + 1) : SubSeq(k, i, i + Len(sub) - 1) = sub

\* line 220: the words a tag key must not contain
SENSITIVE_WORDS == {
    << "s", "e", "c", "r", "e", "t" >>,
    << "p", "a", "s", "s", "w", "o", "r", "d" >>,
    << "k", "e", "y" >>,
    << "t", "o", "k", "e", "n" >>,
    << "a", "r", "n" >> }

\* line 220: any(s in k.lower() for s in [...])
is_sensitive(k) ==
    \E s \in SENSITIVE_WORDS : contains(s, [i \in 1 .. Len(k) |-> lower(k[i])])

Name_key == << "N", "a", "m", "e" >>

\* extract_label(resource)
extract_label(resource) ==
    LET values == resource.values
        tags == IF Truthy(get(values, "tags")) THEN get(values, "tags")
                ELSE IF Truthy(get(values, "tags_all")) THEN get(values, "tags_all")
                ELSE Dict(<<>>)
        named == /\ tags.kind = "dict"
                 /\ Name_key \in DOMAIN tags.v
                 /\ tags.v[Name_key] # ""
        attrs == << "name", "bucket", "function_name", "cluster_name", "domain_name" >>
        found == { i \in 1 .. Len(attrs) : Truthy(get(values, attrs[i])) }
    IN  IF named THEN tags.v[Name_key]
        ELSE IF found # {}
             THEN values[attrs[CHOOSE i \in found : \A j \in found : i <= j]].v
             ELSE resource.name

\* extract_module_name(address); 0 stands for None
extract_module_name(address) ==
    IF address[1] = "module" /\ Len(address) >= 2 THEN address[2] ELSE 0

\* extract_safe_attributes without the filter on the tag keys
extract_safe_attributes_all_tags(values) ==
    LET kept == { attr \in SAFE_ATTRIBUTES \cap DOMAIN values :
                     values[attr].kind # "null" }
    IN  [attr \in kept |-> values[attr]]

\* extract_safe_attributes(values)
extract_safe_attributes(values) ==
    LET kept == { attr \in SAFE_ATTRIBUTES \cap DOMAIN values :
                     values[attr].kind # "null" }
        clear(d) == [k \in { k \in DOMAIN d : ~is_sensitive(k) } |-> d[k]]
    IN  [attr \in kept |->
            IF attr \in { "tags", "tags_all" } /\ values[attr].kind = "dict"
            THEN Dict(clear(values[attr].v))
            ELSE values[attr]]

\* parse_resources(root_module)
RECURSIVE parse_resources(_)
parse_resources(root_module) ==
    LET shown == SelectSeq(root_module.resources,
                           LAMBDA r : r.mode = "managed" /\ r.type \in DIAGRAM_RESOURCES)
        own == [i \in 1 .. Len(shown) |->
                   [address |-> shown[i].address,
                    type |-> shown[i].type,
                    name |-> shown[i].name,
                    module |-> extract_module_name(shown[i].address),
                    label |-> extract_label(shown[i]),
                    attributes |-> extract_safe_attributes(shown[i].values)]]
        children == [i \in 1 .. Len(root_module.child_modules) |->
                        parse_resources(root_module.child_modules[i])]
    IN  own \o Concat(children)

\* lines 273-292: patterns, one entry for each from type and to type of a row
PATTERNS == <<
    <<"aws_api_gateway_rest_api", "aws_lambda_function">>,
    <<"aws_apigatewayv2_api", "aws_lambda_function">>,
    <<"aws_lambda_function", "aws_dynamodb_table">>,
    <<"aws_lambda_function", "aws_db_instance">>,
    <<"aws_lambda_function", "aws_rds_cluster">>,
    <<"aws_lambda_function", "aws_s3_bucket">>,
    <<"aws_cloudfront_distribution", "aws_s3_bucket">>,
    <<"aws_cloudfront_distribution", "aws_lb">>,
    <<"aws_cloudfront_distribution", "aws_alb">>,
    <<"aws_lb", "aws_ecs_service">>,
    <<"aws_alb", "aws_ecs_service">>,
    <<"aws_lb", "aws_instance">>,
    <<"aws_lb", "aws_autoscaling_group">>,
    <<"aws_alb", "aws_instance">>,
    <<"aws_alb", "aws_autoscaling_group">>,
    <<"aws_ecs_service", "aws_db_instance">>,
    <<"aws_ecs_service", "aws_rds_cluster">>,
    <<"aws_ecs_service", "aws_dynamodb_table">>,
    <<"aws_instance", "aws_db_instance">>,
    <<"aws_instance", "aws_rds_cluster">>,
    <<"aws_sns_topic", "aws_sqs_queue">>,
    <<"aws_sqs_queue", "aws_lambda_function">>,
    <<"aws_cloudwatch_event_rule", "aws_lambda_function">>,
    <<"aws_eventbridge_rule", "aws_lambda_function">>,
    <<"aws_sfn_state_machine", "aws_lambda_function">>,
    <<"aws_kinesis_stream", "aws_lambda_function">>,
    <<"aws_kinesis_stream", "aws_kinesis_firehose_delivery_stream">>,
    <<"aws_kinesis_firehose_delivery_stream", "aws_s3_bucket">> >>

\* infer_dependencies(resources)
infer_dependencies(resources) ==
    LET of_type(t) == SelectSeq(resources, LAMBDA r : r.type = t)
        matches(p) ==
            LET from_resources == of_type(PATTERNS[p][1])
                to_resources == of_type(PATTERNS[p][2])
            IN  Concat([i \in 1 .. Len(from_resources) |->
                    LET same == SelectSeq(to_resources,
                                    LAMBDA r : r.module = from_resources[i].module)
                    IN  [j \in 1 .. Len(same) |->
                            <<from_resources[i].address, same[j].address>>]])
        keys == Concat([p \in 1 .. Len(PATTERNS) |-> matches(p)])
        unseen == SelectSeq([i \in 1 .. Len(keys) |-> i],
                            LAMBDA i : \A j \in 1 .. (i - 1) : keys[j] # keys[i])
    IN  [i \in 1 .. Len(unseen) |->
            [from |-> keys[unseen[i]][1], to |-> keys[unseen[i]][2], inferred |-> TRUE]]

\* lines 333-339: collect_types(module)
RECURSIVE collect_types(_)
collect_types(module) ==
    { module.resources[i].type : i \in 1 .. Len(module.resources) }
        \cup UNION { collect_types(module.child_modules[i]) :
                        i \in 1 .. Len(module.child_modules) }

\* sanitize(data) for data["values"]["root_module"] = root_module; a sorted
\* list of a set, which the set determines, is given as the set
sanitize(root_module) ==
    LET resources == parse_resources(root_module)
        dependencies == infer_dependencies(resources)
        modules == Ascending({ r.module : r \in Elems(resources) } \ { 0 })
    IN  IF resources = <<>>
        THEN [raised |-> "ValueError", all_types |-> collect_types(root_module)]
        ELSE [raised |-> "", resources |-> resources,
              dependencies |-> dependencies, modules |-> modules,
              _meta |-> [resource_count |-> Len(resources),
                         dependency_count |-> Len(dependencies),
                         module_count |-> Len(modules),
                         resource_types |-> { r.type : r \in Elems(resources) }]]

----------------------------------------------------------------------------
(* sanitize on a state and on its twin *)

ApiKey_key == << "A", "p", "i", "K", "e", "y" >>
Env_key == << "E", "n", "v" >>

\* resources of a state, with the attributes sanitize may keep: their mode,
\* address parts and the SAFE_ATTRIBUTES among their values
SanBases == {
    [mode |-> "managed", type |-> "aws_lambda_function", name |-> "fn", module |-> 0,
     safe |-> [function_name |-> Str("fn-prod"),
               tags |-> Dict((Name_key :> "web") @@ (ApiKey_key :> "")),
               description |-> None]],
    [mode |-> "managed", type |-> "aws_dynamodb_table", name |-> "tbl", module |-> 0,
     safe |-> [name |-> Str("orders"), tags |-> None,
               tags_all |-> Dict(Env_key :> "prod")]],
    [mode |-> "managed", type |-> "aws_lambda_function", name |-> "fn", module |-> 1,
     safe |-> [tags |-> Dict(ApiKey_key :> ""),
               tags_all |-> Dict((ApiKey_key :> "") @@ (Name_key :> "all")),
               vpc_id |-> Str("vpc-1")]],
    [mode |-> "managed", type |-> "aws_dynamodb_table", name |-> "tbl", module |-> 1,
     safe |-> [name |-> Str(""), tags |-> Dict(<<>>)]],
    [mode |-> "managed", type |-> "aws_iam_policy", name |-> "pol", module |-> 0,
     safe |-> [name |-> Str("pol")]],
    [mode |-> "data", type |-> "aws_s3_bucket", name |-> "b", module |-> 0,
     safe |-> [bucket |-> Str("logs")]] }

\* two sets of values for the attributes sanitize drops
Secrets == <<
    [arn |-> Str("arn:aws:1"), id |-> Str("i-1"), private_ip |-> Str("10.0.0.1"),
     password |-> None],
    [arn |-> Str("arn:aws:2"), id |-> Str("i-2"), private_ip |-> Str("10.0.0.2"),
     password |-> Str("hunter2")] >>
SecretTags == << "k1", "k2" >>

\* the resource of base b whose dropped attributes have the c-th values
StateResource(b, c) ==
    LET secret(d) == [k \in DOMAIN d |-> IF k = ApiKey_key THEN SecretTags[c] ELSE d[k]]
        safe == [attr \in DOMAIN b.safe |->
                    IF b.safe[attr].kind = "dict"
                    THEN Dict(secret(b.safe[attr].v))
                    ELSE b.safe[attr]]
    IN  [address |-> IF b.module = 0 THEN <<b.type, b.name>>
                     ELSE <<"module", b.module, b.type, b.name>>,
         mode |-> b.mode, type |-> b.type, name |-> b.name,
         values |-> safe @@ Secrets[c]]

\* the root_module with the resources of q, choice cs[i] for the i-th
RootModule(q, cs) ==
    LET all == [i \in 1 .. Len(q) |-> StateResource(q[i], cs[i])]
        idx(m) == SelectSeq([i \in 1 .. Len(q) |-> i], LAMBDA i : q[i].module = m)
        of(m) == [j \in 1 .. Len(idx(m)) |-> all[idx(m)[j]]]
        ms == Ascending({ q[i].module : i \in 1 .. Len(q) } \ { 0 })
    IN  [resources |-> of(0),
         child_modules |-> [j \in 1 .. Len(ms) |->
                               [address |-> <<"module", ms[j]>>,
                                resources |-> of(ms[j]),
                                child_modules |-> <<>>]]]

InitSanitize ==
    /\ \E q \in DistinctSeqs(SanBases, MaxState) :
          \E cs, ct \in [1 .. Len(q) -> 1 .. 2] :
              /\ tf_state = RootModule(q, cs)
              /\ tf_twin = RootModule(q, ct)
    /\ clean = <<>>
    /\ clean_twin = <<>>
    /\ ConIdle
    /\ DotIdle
    /\ LayoutIdle
    /\ SvgIdle
    /\ cols = 0
    /\ rows = 0
    /\ blocked = {}
    /\ used_h = {}
    /\ used_v = {}
    /\ gpc = "idle"
    /\ offset = 0
    /\ examined = 0
    /\ call = NoCall

\* sanitize(data) on the state
Sanitize ==
    /\ tf_state # <<>>
    /\ clean = <<>>
    /\ clean' = sanitize(tf_state)
    /\ UNCHANGED <<tf_state, tf_twin, clean_twin>>
    /\ UNCHANGED <<gridVars, svgVars, layVars, dotVars, conVars>>

\* sanitize(data) on the twin
SanitizeTwin ==
    /\ tf_twin # <<>>
    /\ clean_twin = <<>>
    /\ clean_twin' = sanitize(tf_twin)
    /\ UNCHANGED <<tf_state, tf_twin, clean>>
    /\ UNCHANGED <<gridVars, svgVars, layVars, dotVars, conVars>>

NextSanitize == Sanitize \/ SanitizeTwin

SpecSanitize == InitSanitize /\ [][NextSanitize]_vars

----------------------------------------------------------------------------
(* tf2diagram.py: infer_connections(resources)                             *)
(*                                                                         *)
(* A resource id is the sequence of its characters, so that the substring  *)
(* tests of the special patterns are computed.                             *)

LAYER_FLOW == << "edge", "ingress", "compute", "integration", "analytics", "ml",
                "data", "storage" >>

\* RESOURCE_MAP[type][2] for the types of the model's resources
RESOURCE_LAYER ==
    "aws_instance" :> "compute" @@
    "aws_lambda_function" :> "compute" @@
    "aws_dynamodb_table" :> "data" @@
    "aws_s3_bucket" :> "storage" @@
    "aws_cloudfront_distribution" :> "edge" @@
    "aws_route53_zone" :> "edge" @@
    "aws_lb" :> "ingress" @@
    "aws_iam_role" :> "security" @@
    "aws_sqs_queue" :> "integration"

\* rid.lower()
lower_all(rid) == [i \in 1 .. Len(rid) |-> lower(rid[i])]

\* by_layer[layer]: the ids of the resources of the layer, in dict order
by_layer(resources, layer) ==
    LET of == SelectSeq(resources, LAMBDA r : r.layer = layer)
    IN  [i \in 1 .. Len(of) |-> of[i].id]

\* add(src, tgt) without the test on seen
add_again(resources, acc, src, tgt) ==
    IF /\ src # tgt
       /\ \E r \in Elems(resources) : r.id = src
       /\ \E r \in Elems(resources) : r.id = tgt
    THEN [seen |-> acc.seen \cup { <<src, tgt>> },
          connections |-> Append(acc.connections, <<src, tgt>>)]
    ELSE acc

\* add(src, tgt), lines 436-440; acc is [seen, connections]
add(resources, acc, src, tgt) ==
    IF /\ src # tgt
       /\ \E r \in Elems(resources) : r.id = src
       /\ \E r \in Elems(resources) : r.id = tgt
       /\ <<src, tgt>> \notin acc.seen
    THEN [seen |-> acc.seen \cup { <<src, tgt>> },
          connections |-> Append(acc.connections, <<src, tgt>>)]
    ELSE acc

\* add called on the pairs of a list, from the k-th on
RECURSIVE add_all(_, _, _, _)
add_all(resources, pairs, k, acc) ==
    IF k > Len(pairs)
    THEN acc
    ELSE add_all(resources, pairs, k + 1,
                 add(resources, acc, pairs[k][1], pairs[k][2]))

\* lines 447-456: the pairs the loop over LAYER_FLOW[:-1] hands to add
layer_pairs(resources) ==
    LET targets(i) ==
            LET later == { j \in (i + 1) .. Len(LAYER_FLOW) :
                              by_layer(resources, LAYER_FLOW[j]) # <<>> }
            IN  IF later = {} THEN <<>>
                ELSE by_layer(resources,
                              LAYER_FLOW[CHOOSE j \in later : \A z \in later : j <= z])
        from(i) ==
            LET srcs == by_layer(resources, LAYER_FLOW[i])
            IN  Concat([a \in 1 .. Len(srcs) |->
                           [b \in 1 .. Len(targets(i)) |-> <<srcs[a], targets(i)[b]>>]])
    IN  Concat([i \in 1 .. (Len(LAYER_FLOW) - 1) |-> from(i)])

\* lines 458-471: the pairs the two special patterns hand to add
pattern_pairs(resources) ==
    LET named(ids, word) == SelectSeq(ids, LAMBDA rid : contains(word, lower_all(rid)))
        pairs(srcs, tgts) ==
            Concat([a \in 1 .. Len(srcs) |->
                       [b \in 1 .. Len(tgts) |-> <<srcs[a], tgts[b]>>]])
    IN  pairs(named(by_layer(resources, "edge"),
                    << "c", "l", "o", "u", "d", "f", "r", "o", "n", "t" >>),
              named(by_layer(resources, "storage"), << "s", "3" >>))
        \o pairs(named(by_layer(resources, "compute"),
                       << "l", "a", "m", "b", "d", "a" >>),
                 named(by_layer(resources, "data"),
                       << "d", "y", "n", "a", "m", "o", "d", "b" >>))

\* infer_connections(resources)
infer_connections(resources) ==
    add_all(resources, pattern_pairs(resources), 1,
            add_all(resources, layer_pairs(resources), 1,
                    [seen |-> {}, connections |-> <<>>])).connections

----------------------------------------------------------------------------
(* infer_connections on the resources parse_terraform_json can return *)

\* resources of the layers of LAYER_FLOW and of one other layer; two ids hold
\* a pattern word in their name only
TfdResources == {
    [id |-> << "a", "w", "s", "_", "c", "l", "o", "u", "d", "f", "r", "o",
                   "n", "t", "_", "d", "i", "s", "t", "r", "i",
                   "b", "u", "t", "i", "o", "n", ".", "c", "d",
                   "n" >>,
     layer |-> RESOURCE_LAYER["aws_cloudfront_distribution"]],
    [id |-> << "a", "w", "s", "_", "r", "o", "u", "t", "e", "5", "3", "_",
                   "z", "o", "n", "e", ".", "S", "3", "s", "i",
                   "t", "e" >>,
     layer |-> RESOURCE_LAYER["aws_route53_zone"]],
    [id |-> << "a", "w", "s", "_", "l", "b", ".", "w", "e", "b" >>,
     layer |-> RESOURCE_LAYER["aws_lb"]],
    [id |-> << "a", "w", "s", "_", "l", "a", "m", "b", "d", "a", "_", "f",
                   "u", "n", "c", "t", "i", "o", "n", ".", "f",
                   "n" >>,
     layer |-> RESOURCE_LAYER["aws_lambda_function"]],
    [id |-> << "a", "w", "s", "_", "i", "n", "s", "t", "a", "n", "c", "e",
                   ".", "L", "a", "m", "b", "d", "a" >>,
     layer |-> RESOURCE_LAYER["aws_instance"]],
    [id |-> << "a", "w", "s", "_", "s", "q", "s", "_", "q", "u", "e", "u",
                   "e", ".", "q" >>,
     layer |-> RESOURCE_LAYER["aws_sqs_queue"]],
    [id |-> << "a", "w", "s", "_", "d", "y", "n", "a", "m", "o", "d", "b",
                   "_", "t", "a", "b", "l", "e", ".", "t" >>,
     layer |-> RESOURCE_LAYER["aws_dynamodb_table"]],
    [id |-> << "a", "w", "s", "_", "s", "3", "_", "b", "u", "c", "k", "e",
                   "t", ".", "b" >>,
     layer |-> RESOURCE_LAYER["aws_s3_bucket"]],
    [id |-> << "a", "w", "s", "_", "i", "a", "m", "_", "r", "o", "l", "e",
                   ".", "r" >>,
     layer |-> RESOURCE_LAYER["aws_iam_role"]] }

InitConnections ==
    /\ tfd_resources \in DistinctSeqs(TfdResources, MaxDiagram)
    /\ connections = <<>>
    /\ con_seen = {}
    /\ cpc = "layers"
    /\ SanIdle
    /\ DotIdle
    /\ LayoutIdle
    /\ SvgIdle
    /\ cols = 0
    /\ rows = 0
    /\ blocked = {}
    /\ used_h = {}
    /\ used_v = {}
    /\ gpc = "idle"
    /\ offset = 0
    /\ examined = 0
    /\ call = NoCall

\* lines 447-456: the layers connected in flow order
ConnectLayers ==
    /\ cpc = "layers"
    /\ LET acc == add_all(tfd_resources, layer_pairs(tfd_resources), 1,
                          [seen |-> con_seen, connections |-> connections])
       IN  /\ connections' = acc.connections
           /\ con_seen' = acc.seen
    /\ cpc' = "patterns"
    /\ UNCHANGED tfd_resources
    /\ UNCHANGED <<gridVars, svgVars, layVars, dotVars, sanVars>>

\* lines 458-473: the special patterns, and the return
SpecialPatterns ==
    /\ cpc = "patterns"
    /\ LET acc == add_all(tfd_resources, pattern_pairs(tfd_resources), 1,
                          [seen |-> con_seen, connections |-> connections])
       IN  /\ connections' = acc.connections
           /\ con_seen' = acc.seen
    /\ cpc' = "done"
    /\ UNCHANGED tfd_resources
    /\ UNCHANGED <<gridVars, svgVars, layVars, dotVars, sanVars>>

NextConnections == ConnectLayers \/ SpecialPatterns

SpecConnections == InitConnections /\ [][NextConnections]_vars

----------------------------------------------------------------------------
(* Properties of the layout functions *)

\* the positions in the result of the layout function called
Positions ==
    IF lout = <<>> THEN <<>>
    ELSE IF lkind = "tf2svg" THEN lout.pos
    ELSE lout.positions

\* the NODE_W x NODE_H rectangles at p and q have no common area
Disjoint(p, q) ==
    \/ p.x + NODE_W <= q.x
    \/ q.x + NODE_W <= p.x
    \/ p.y + NODE_H <= q.y
    \/ q.y + NODE_H <= p.y

\* C1: in the result of tf2svg.layout, graph2svg.layout and
\* files2svg.layout_resources the rectangles of any two distinct positioned
\* nodes have disjoint areas.
C1_NoOverlap ==
    \A a, b \in DOMAIN Positions : a # b => Disjoint(Positions[a], Positions[b])

\* layout_resources has wrapped its nodes into a second row
C1_Witness ==
    /\ lkind = "files2svg"
    /\ lout # <<>>
    /\ Cardinality(DOMAIN Positions) > MAX_PER_ROW
    /\ Cardinality({ Positions[a].y : a \in DOMAIN Positions }) = 2

\* the results of the other two layout functions with several rows
TfRowsSeen ==
    ~ /\ lkind = "tf2svg"
      /\ Cardinality(DOMAIN Positions) >= 3
      /\ Cardinality({ Positions[a].y : a \in DOMAIN Positions }) >= 2
GraphRowsSeen ==
    ~ /\ lkind = "graph2svg"
      /\ Cardinality(DOMAIN Positions) >= 3
      /\ Cardinality({ Positions[a].y : a \in DOMAIN Positions }) >= 2
VpcTiersSeen ==
    ~ /\ lkind = "files2svg"
      /\ lout # <<>>
      /\ Cardinality(DOMAIN lout.tiers) = 3
      /\ Cardinality(DOMAIN Positions) >= 3

\* the nodes of module m in flow f
Row(m, f) == { n \in Elems(lin.nodes) : n.module = m /\ n.flow = f }

\* the entry points that are nodes of the row
Contributed(m, f) ==
    { k \in 1 .. Len(lout.entry_points) :
         \E n \in Row(m, f) : n.id = lout.entry_points[k].id }

\* C5: in the result of graph2svg.layout every flow row of every module
\* contributes at most one entry point; it contributes one exactly when a node
\* of the row has a type in FLOW_ENTRIES[flow]; and no node of the row comes
\* before the contributed node in (position, name) order.
C5_EntryPoints ==
    (lkind = "graph2svg" /\ lout # <<>>) =>
        \A m \in { n.module : n \in Elems(lin.nodes) } :
            \A f \in { n.flow : n \in Elems(lin.nodes) } :
                Row(m, f) # {} =>
                    /\ Cardinality(Contributed(m, f)) <= 1
                    /\ (Contributed(m, f) # {}) <=>
                           (\E n \in Row(m, f) : n.resource_type \in FLOW_ENTRIES[f])
                    /\ \A k \in Contributed(m, f) : \A n \in Row(m, f) : \A e \in Row(m, f) :
                           e.id = lout.entry_points[k].id =>
                               ~KeyLess(<<n.position, n.name>>, <<e.position, e.name>>)

\* a row with two nodes of entry types next to a row with no node of an
\* entry type
C5_Witness ==
    /\ lkind = "graph2svg"
    /\ lout # <<>>
    /\ Len(lout.entry_points) = 1
    /\ Cardinality(Row(0, "api")) = 2
    /\ Row(0, "cdn") # {}


\* the step from one node of a graph2svg row to the next
RowStep == NODE_W + graph_H_GAP

\* C22: in the result of graph2svg.layout the nodes of a (module, flow) row
\* share one y, their x coordinates are the row's first x plus 0, 1, 2, ...
\* steps of NODE_W + H_GAP, and a node that comes first in (position, name)
\* order stands to the left.
C22_RowOrder ==
    (lkind = "graph2svg" /\ lout # <<>>) =>
        \A m \in { n.module : n \in Elems(lin.nodes) } :
            \A f \in { n.flow : n \in Elems(lin.nodes) } :
                LET xs == { lout.positions[n.id].x : n \in Row(m, f) }
                    x0 == CHOOSE x \in xs : \A z \in xs : x <= z
                IN  Row(m, f) # {} =>
                      /\ \A a, b \in Row(m, f) :
                            lout.positions[a.id].y = lout.positions[b.id].y
                      /\ xs = { x0 + k * RowStep :
                                   k \in 0 .. (Cardinality(Row(m, f)) - 1) }
                      /\ \A a, b \in Row(m, f) :
                            KeyLess(<<a.position, a.name>>, <<b.position, b.name>>)
                                => lout.positions[a.id].x < lout.positions[b.id].x

\* a row whose order by position is neither the order given nor the order
\* of the names
C22_Witness ==
    /\ lkind = "graph2svg"
    /\ lout # <<>>
    /\ \E i, j \in 1 .. Len(lin.nodes) :
          /\ i < j
          /\ lin.nodes[i].module = lin.nodes[j].module
          /\ lin.nodes[i].flow = lin.nodes[j].flow
          /\ lin.nodes[j].position < lin.nodes[i].position
          /\ lin.nodes[j].name > lin.nodes[i].name
          /\ lout.positions[lin.nodes[j].id].x < lout.positions[lin.nodes[i].id].x


\* the nodes tf2svg.layout or graph2svg.layout has placed, with their module
\* and their row; tf2svg.layout has one row in a module
PlacedNodes ==
    IF lout = <<>> THEN {}
    ELSE IF lkind = "tf2svg"
    THEN { [id |-> r.address, module |-> r.module, row |-> "row"] :
              r \in { r \in Elems(lin.data.resources) : r.type \in SHOW_RESOURCES } }
    ELSE IF lkind = "graph2svg"
    THEN { [id |-> n.id, module |-> n.module, row |-> n.flow] : n \in Elems(lin.nodes) }
    ELSE {}

\* the module rectangles of the result
ModuleRects ==
    IF lout = <<>> THEN <<>>
    ELSE IF lkind = "tf2svg" THEN lout.mods
    ELSE IF lkind = "graph2svg" THEN lout.modules
    ELSE <<>>

HGapOf == IF lkind = "tf2svg" THEN H_GAP ELSE graph_H_GAP
VGapOf == IF lkind = "tf2svg" THEN V_GAP ELSE graph_V_GAP

\* the rows of module m and the number of nodes of its row w
RowsOf(m) == { n.row : n \in { n \in PlacedNodes : n.module = m } }
CountOf(m, w) == Cardinality({ n \in PlacedNodes : n.module = m /\ n.row = w })

\* C23: every node rectangle lies inside the rectangle of its module, below
\* the header band and MODULE_PAD or more from each edge; the module is as
\* wide as its widest row (count * NODE_W + (count - 1) * H_GAP) plus
\* MODULE_PAD on both sides and as high as its rows and the gaps between
\* them plus MODULE_HDR plus MODULE_PAD at top and bottom.
C23_ModuleBounds ==
    /\ \A n \in PlacedNodes :
          LET p == Positions[n.id]
              b == ModuleRects[n.module]
          IN  /\ n.module \in DOMAIN ModuleRects
              /\ p.x >= b.x + MODULE_PAD
              /\ p.x + NODE_W <= b.x + b.w - MODULE_PAD
              /\ p.y >= b.y + MODULE_HDR + MODULE_PAD
              /\ p.y + NODE_H <= b.y + b.h - MODULE_PAD
    /\ \A m \in DOMAIN ModuleRects :
          LET widest == CHOOSE c \in { CountOf(m, w) : w \in RowsOf(m) } :
                            \A w \in RowsOf(m) : CountOf(m, w) <= c
              nrows == Cardinality(RowsOf(m))
          IN  /\ RowsOf(m) # {}
              /\ ModuleRects[m].w =
                     widest * NODE_W + (widest - 1) * HGapOf + 2 * MODULE_PAD
              /\ ModuleRects[m].h =
                     nrows * NODE_H + (nrows - 1) * VGapOf + MODULE_HDR + 2 * MODULE_PAD

\* a module of graph2svg.layout whose second row is wider than its first
C23_Witness ==
    /\ lkind = "graph2svg"
    /\ lout # <<>>
    /\ \E m \in DOMAIN ModuleRects :
          /\ CountOf(m, "cdn") = 1
          /\ CountOf(m, "api") = 2


\* the modules of graph2svg.layout and the tiers of layout_resources
Containers ==
    IF lout = <<>> THEN <<>>
    ELSE IF lkind = "graph2svg" THEN lout.modules
    ELSE IF lkind = "files2svg" THEN lout.tiers
    ELSE <<>>

\* the positions inside container c, and the y coordinates of its rows
Inside(c) ==
    { a \in DOMAIN Positions :
         /\ Positions[a].y >= c.y /\ Positions[a].y < c.y + c.h
         /\ Positions[a].x >= c.x /\ Positions[a].x < c.x + c.w }
RowYs(c) == { Positions[a].y : a \in Inside(c) }

\* the free space left of the first node and right of the last node of the
\* row of container c at height y
FreeLeft(c, y) ==
    LET xs == { Positions[a].x : a \in { a \in Inside(c) : Positions[a].y = y } }
    IN  (CHOOSE x \in xs : \A z \in xs : x <= z) - c.x
FreeRight(c, y) ==
    LET xs == { Positions[a].x : a \in { a \in Inside(c) : Positions[a].y = y } }
    IN  c.x + c.w - ((CHOOSE x \in xs : \A z \in xs : x >= z) + NODE_W)

\* C24: in every module of graph2svg.layout and every tier of
\* layout_resources each row is centred: the free space on its left and on
\* its right differ by one unit at most.
C24_RowsCentred ==
    \A m \in DOMAIN Containers :
        \A y \in RowYs(Containers[m]) :
            Abs(FreeLeft(Containers[m], y) - FreeRight(Containers[m], y)) <= 1

\* the layout function called was given no node, or only nodes it filters
\* out, and no title
NothingToPlace ==
    CASE lkind = "tf2svg" ->
             /\ ~lin.title
             /\ \A r \in Elems(lin.data.resources) : r.type \notin SHOW_RESOURCES
      [] lkind = "graph2svg" -> ~lin.title /\ lin.nodes = <<>>
      [] lkind = "files2svg" ->
             \A r \in Elems(lin.resources) : r.resource_type \in files_SKIP_RESOURCES
      [] OTHER -> FALSE

\* the canvas size in the result
CanvasW == IF lkind = "tf2svg" THEN lout.w ELSE lout.width
CanvasH == IF lkind = "tf2svg" THEN lout.h ELSE lout.height

\* C13: given nothing to place, each layout function returns an empty position
\* map and a canvas of the padding only, CANVAS_PAD on each side.
C13_EmptyLayout ==
    (lout # <<>> /\ NothingToPlace) =>
        /\ DOMAIN Positions = {}
        /\ CanvasW = CANVAS_PAD * 2
        /\ CanvasH = CANVAS_PAD * 2


\* C15: in the result of tf2svg.layout a shown resource whose type TIERS does
\* not list stands to the right of every resource of its module whose type
\* TIERS lists.
C15_UnknownTypeTrails ==
    (lkind = "tf2svg" /\ lout # <<>>) =>
        \A a, b \in Elems(lin.data.resources) :
            ( /\ a.address \in DOMAIN lout.pos
              /\ b.address \in DOMAIN lout.pos
              /\ a.module = b.module
              /\ a.type \notin DOMAIN TIERS
              /\ b.type \in DOMAIN TIERS )
                => lout.pos[a.address].x > lout.pos[b.address].x


\* the node rectangles and the module or tier rectangles of the result
LayoutRects ==
    { [x |-> Positions[a].x, y |-> Positions[a].y, w |-> NODE_W, h |-> NODE_H] :
         a \in DOMAIN Positions }
      \cup { [x |-> ModuleRects[m].x, y |-> ModuleRects[m].y,
              w |-> ModuleRects[m].w, h |-> ModuleRects[m].h] :
                m \in DOMAIN ModuleRects }
      \cup (IF lkind = "files2svg" /\ lout # <<>>
            THEN { [x |-> lout.tiers[t].x, y |-> lout.tiers[t].y,
                    w |-> lout.tiers[t].w, h |-> lout.tiers[t].h] :
                      t \in DOMAIN lout.tiers }
            ELSE {})

\* C25: for a layout that places a node, the canvas is as wide as the largest
\* right edge of a node, module or tier rectangle plus CANVAS_PAD and as high
\* as the largest bottom edge plus CANVAS_PAD, and every such rectangle keeps
\* CANVAS_PAD or more from the four canvas edges.
C25_CanvasSize ==
    (lout # <<>> /\ DOMAIN Positions # {}) =>
        /\ \E r \in LayoutRects : CanvasW = r.x + r.w + CANVAS_PAD
        /\ \E r \in LayoutRects : CanvasH = r.y + r.h + CANVAS_PAD
        /\ \A r \in LayoutRects :
              /\ r.x >= CANVAS_PAD
              /\ r.y >= CANVAS_PAD
              /\ r.x + r.w + CANVAS_PAD <= CanvasW
              /\ r.y + r.h + CANVAS_PAD <= CanvasH

\* C27: layout_resources gives every resource whose type is not in
\* SKIP_RESOURCES a position, in the VPC branch and in the serverless branch,
\* whatever its tier.
C27_EveryVisiblePlaced ==
    (lkind = "files2svg" /\ lout # <<>>) =>
        DOMAIN lout.positions =
            { r.id : r \in { r \in Elems(lin.resources) :
                                r.resource_type \notin files_SKIP_RESOURCES } }

\* the tiers of the VPC branch, and whether two rectangles share a point
VpcTiers ==
    IF lkind = "files2svg" /\ lout # <<>>
    THEN { t \in DOMAIN lout.tiers : lout.tiers[t].in_vpc }
    ELSE {}
RectsMeet(a, b) ==
    /\ a.x < b.x + b.w /\ b.x < a.x + a.w
    /\ a.y < b.y + b.h /\ b.y < a.y + a.h

\* C28: in the VPC branch the VPC rectangle contains the rectangle of the
\* public tier and of the private tier, and does not overlap the rectangle of
\* the external tier.
C28_VpcRectangle ==
    VpcTiers # {} =>
        \A t \in DOMAIN lout.tiers :
            IF t \in { "public", "private" }
            THEN /\ lout.vpc.x <= lout.tiers[t].x
                 /\ lout.vpc.y <= lout.tiers[t].y
                 /\ lout.tiers[t].x + lout.tiers[t].w <= lout.vpc.x + lout.vpc.w
                 /\ lout.tiers[t].y + lout.tiers[t].h <= lout.vpc.y + lout.vpc.h
            ELSE ~RectsMeet(lout.vpc, lout.tiers[t])

\* the part of C28 about the tiers inside the VPC
C28_VpcContainsItsTiers ==
    \A t \in VpcTiers :
        /\ lout.vpc.x <= lout.tiers[t].x
        /\ lout.vpc.y <= lout.tiers[t].y
        /\ lout.tiers[t].x + lout.tiers[t].w <= lout.vpc.x + lout.vpc.w
        /\ lout.tiers[t].y + lout.tiers[t].h <= lout.vpc.y + lout.vpc.h

\* the orders in which the elements of sequence q can be supplied
Orders(q) ==
    { r \in [1 .. Len(q) -> Elems(q)] : \A i, j \in 1 .. Len(q) : i # j => r[i] # r[j] }

\* C29: the positions tf2svg.layout and graph2svg.layout return do not depend
\* on the order in which the resources (nodes) are supplied: every
\* permutation of the input gets the positions of the input.
C29_OrderIndependent ==
    /\ (lkind = "tf2svg" /\ lout # <<>>) =>
          \A q \in Orders(lin.data.resources) :
              layout([lin.data EXCEPT !.resources = q], lin.title).pos = lout.pos
    /\ (lkind = "graph2svg" /\ lout # <<>>) =>
          \A q \in Orders(lin.nodes) :
              graph_layout(q, lin.title).positions = lout.positions

----------------------------------------------------------------------------
(* Properties of generate_svg *)

\* the routed edges
Routed == { paths[k] : k \in 1 .. Len(paths) }

\* the open NODE_W x NODE_H rectangle of the node at position p meets the
\* bounding box of the segment from a to b
CrossesNode(a, b, p) ==
    /\ Min2(a[1], b[1]) < p.r
    /\ Max2(a[1], b[1]) > p.l
    /\ Min2(a[2], b[2]) < p.b
    /\ Max2(a[2], b[2]) > p.t

\* node c stands in the row of e's end points, between them
Between(e, c) ==
    LET f == L.pos[e.from]
        t == L.pos[e.to]
        m == L.pos[c]
    IN  /\ c \notin { e.from, e.to }
        /\ f.y = t.y
        /\ m.y = f.y
        /\ Min2(f.x, t.x) < m.x
        /\ m.x < Max2(f.x, t.x)

\* nodes placed next to each other in one module row
Adjacent(a, b) ==
    /\ L.pos[a].y = L.pos[b].y
    /\ Abs(L.pos[a].x - L.pos[b].x) = NODE_W + H_GAP

\* C6: a second run of generate_svg on the same data ends with the same node
\* positions, module bounds, canvas size, blocked cells and waypoint lists as
\* the first, whatever order the module names were listed in.
C6_Determinism == (run = 2 /\ spc = "done") => outcome = prev[1]

C6_Witness ==
    /\ run = 2
    /\ spc = "done"
    /\ Len(paths) >= 1
    /\ Cardinality(DOMAIN L.mods) = 3
    /\ data.modules # prev[2]

C8_ObstacleAvoided ==
    \A e \in Routed : \A c \in DOMAIN L.pos :
        Between(e, c) =>
            /\ Len(e.waypoints) >= 4
            /\ \A i \in 1 .. (Len(e.waypoints) - 1) :
                  ~CrossesNode(e.waypoints[i], e.waypoints[i + 1], L.pos[c])

\* C9: the path routed between two nodes placed next to each other in one
\* module row is exactly [(source.r + 4, cy), (target.l - 4, cy)].
C9_AdjacentStraight ==
    \A e \in Routed :
        Adjacent(e.from, e.to) =>
            e.waypoints = << <<L.pos[e.from].r + 4, L.pos[e.from].cy>>,
                             <<L.pos[e.to].l - 4, L.pos[e.to].cy>> >>

C9_Witness ==
    /\ spc = "done"
    /\ \E e \in Routed : Adjacent(e.from, e.to) /\ L.pos[e.from].x < L.pos[e.to].x
    /\ \E e \in Routed : Adjacent(e.from, e.to) /\ L.pos[e.from].x > L.pos[e.to].x

\* C12: generate_svg routes at most one path for a pair (from, to), also when
\* the dependency is listed twice in data["dependencies"].
C12_Deduplicated ==
    \A i, j \in 1 .. Len(paths) :
        (paths[i].from = paths[j].from /\ paths[i].to = paths[j].to) => i = j


\* the node rectangles and the module-header rectangles of the layout
NodeRects ==
    { [x |-> L.pos[a].x, y |-> L.pos[a].y, w |-> NODE_W, h |-> NODE_H] :
        a \in DOMAIN L.pos }
HeaderRects ==
    { [x |-> L.mods[m].x, y |-> L.mods[m].y, w |-> L.mods[m].w, h |-> MODULE_HDR] :
        m \in DOMAIN L.mods }

\* the pixels of cell <<gx, gy>> meet the rectangle r enlarged by ROUTE_MARGIN
\* on every side, its border included
Overlaps(r, gx, gy) ==
    /\ gx * cell_size <= r.x + r.w + ROUTE_MARGIN
    /\ gx * cell_size + cell_size - 1 >= r.x - ROUTE_MARGIN
    /\ gy * cell_size <= r.y + r.h + ROUTE_MARGIN
    /\ gy * cell_size + cell_size - 1 >= r.y - ROUTE_MARGIN

----------------------------------------------------------------------------
(* Properties of graph2svg.main *)

\* the edges filter_edges returned, both lists
Filtered == Elems(intra_edges) \cup Elems(cross_edges)

\* C11: no edge returned by filter_edges, intra or cross, joins a node to
\* itself.
C11_NoSelfLoop == \A e \in Filtered : e.from_id # e.to_id

\* the resource strings of the text whose type FLOW_PATHS does not list (and
\* SKIP_RESOURCES does not name)
Unclassified ==
    { s \in { dot[k][i] : k \in 1 .. Len(dot), i \in 1 .. 2 } :
         /\ s.kind = "resource"
         /\ s.rtype \notin graph_SKIP_RESOURCES
         /\ s.rtype \notin DOMAIN FLOW_PATHS }

\* C14: a resource whose type the classification table does not list is kept
\* by parsing with the default flow and receives a position that overlaps no
\* other node's.
C14_UnknownTypeKept ==
    dpc = "done" =>
        \A s \in Unclassified :
            /\ has_node(g_nodes, node_id(s))
            /\ node_id(s) \in DOMAIN g_L.positions
            /\ \A b \in DOMAIN g_L.positions :
                  b # node_id(s) =>
                      Disjoint(g_L.positions[node_id(s)], g_L.positions[b])

\* C16: every intra-module edge filter_edges returns runs left to right in
\* the layout: its two nodes stand in the same row and the from-node is
\* strictly left of the to-node.
C16_IntraLeftToRight ==
    dpc = "done" =>
        \A e \in Elems(intra_edges) :
            /\ e.from_id \in DOMAIN g_L.positions
            /\ e.to_id \in DOMAIN g_L.positions
            /\ g_L.positions[e.from_id].y = g_L.positions[e.to_id].y
            /\ g_L.positions[e.from_id].x < g_L.positions[e.to_id].x

\* the nodes of the graph whose type is a support service
SupportNodes ==
    { n \in Elems(g_nodes) : n.resource_type \in SUPPORT_SERVICES }

\* C17: no edge filter_edges returns has a support service at either end,
\* and every support node has a position in the layout.
C17_SupportUnconnected ==
    /\ \A e \in Filtered :
          \A n \in SupportNodes : e.from_id # n.id /\ e.to_id # n.id
    /\ dpc = "done" => \A n \in SupportNodes : n.id \in DOMAIN g_L.positions

\* the text names a visible edge to or from a support node, filter_edges has
\* returned edges and the layout has placed the support node
C17_Witness ==
    /\ dpc = "done"
    /\ Filtered # {}
    /\ \E e \in Elems(g_edges), n \in SupportNodes :
          /\ n.id \in { e.from_id, e.to_id }
          /\ e.from_id # e.to_id
          /\ has_node(g_nodes, e.from_id) /\ has_node(g_nodes, e.to_id)
          /\ n.id \in DOMAIN g_L.positions

----------------------------------------------------------------------------
(* Properties of sanitize *)

\* the resources of a module and of its child modules, as parse_resources
\* walks them
RECURSIVE StateResources(_)
StateResources(module) ==
    module.resources
        \o Concat([i \in 1 .. Len(module.child_modules) |->
                      StateResources(module.child_modules[i])])

\* what sanitize may read of a resource: mode, address, type, name and the
\* SAFE_ATTRIBUTES among its values, the tags with a sensitive key set aside
SafeView(r) ==
    [mode |-> r.mode, address |-> r.address, type |-> r.type, name |-> r.name,
     values |-> [attr \in SAFE_ATTRIBUTES \cap DOMAIN r.values |->
                    IF r.values[attr].kind = "dict"
                    THEN Dict([k \in DOMAIN r.values[attr].v |->
                                  IF is_sensitive(k) THEN "" ELSE r.values[attr].v[k]])
                    ELSE r.values[attr]]]

\* the two states differ at most in the values of the other attributes and
\* of the tags with a sensitive key
Twins ==
    LET a == StateResources(tf_state)
        b == StateResources(tf_twin)
    IN  /\ Len(a) = Len(b)
        /\ \A i \in 1 .. Len(a) : SafeView(a[i]) = SafeView(b[i])

\* the attributes maps of a result of sanitize
Emitted(out) ==
    IF out = <<>> \/ out.raised # "" THEN {}
    ELSE { out.resources[i].attributes : i \in 1 .. Len(out.resources) }

----------------------------------------------------------------------------
(* Properties of infer_connections *)

\* the place of a resource's layer in LAYER_FLOW, 0 for a layer outside it
LayerIndex(rid) ==
    LET r == CHOOSE r \in Elems(tfd_resources) : r.id = rid
        at == { i \in 1 .. Len(LAYER_FLOW) : LAYER_FLOW[i] = r.layer }
    IN  IF at = {} THEN 0 ELSE CHOOSE i \in at : TRUE

\* the ids of the resources whose layer is the i-th of LAYER_FLOW
InLayer(i) == { r.id : r \in { r \in Elems(tfd_resources) : r.layer = LAYER_FLOW[i] } }

\* tgt lies in the first layer after the layer of src that has a resource
NextLayer(src, tgt) ==
    /\ LayerIndex(src) > 0
    /\ LayerIndex(src) < LayerIndex(tgt)
    /\ \A i \in (LayerIndex(src) + 1) .. (LayerIndex(tgt) - 1) : InLayer(i) = {}

\* C26: the layer-flow step connects every resource of a layer of LAYER_FLOW
\* with every resource of the first later layer that has one, and with no
\* other; the list returned has no self-connection and no pair twice, and
\* each of its connections leads to a strictly later layer of LAYER_FLOW.
C26_LayerFlow ==
    /\ cpc = "patterns" =>
          Elems(connections) =
              { p \in { r.id : r \in Elems(tfd_resources) }
                        \X { r.id : r \in Elems(tfd_resources) } :
                   NextLayer(p[1], p[2]) }
    /\ cpc \in { "patterns", "done" } =>
          /\ \A k \in 1 .. Len(connections) :
                /\ connections[k][1] # connections[k][2]
                /\ LayerIndex(connections[k][1]) > 0
                /\ LayerIndex(connections[k][1]) < LayerIndex(connections[k][2])
          /\ \A j, k \in 1 .. Len(connections) :
                j # k => connections[j] # connections[k]

\* three connections returned, one of them a special pattern that passes over
\* a layer with a resource
C26_Witness ==
    /\ cpc = "done"
    /\ \E k \in 1 .. Len(connections) :
          ~NextLayer(connections[k][1], connections[k][2])
    /\ Len(connections) = 3

====
